---- MODULE Spec2Model ----
(***************************************************************************)
(* State-machine model of frame-bucket: the consumer's eviction loop       *)
(* (consumer/src/eviction.rs over consumer/src/storage.rs) and the         *)
(* recording state machine (consumer/src/recorder/state.rs); the           *)
(* producer's MJPEG multipart parser (producer/src/mjpeg.rs) and its       *)
(* reconnect loops (producer/src/mjpeg.rs, producer/src/h264.rs); the wire *)
(* format of the bus (common/src/frame.rs); the text of the object keys    *)
(* (consumer/src/recorder/keys.rs) and their listing (storage.rs); the API *)
(* server's segment listing and clip creation (api/src/main.rs); the       *)
(* MPEG-TS packet aligner and PES assembler (producer/src/h264.rs); the    *)
(* frame-size filter (consumer/src/filter/framesize.rs).                   *)
(***************************************************************************)
EXTENDS Integers, Sequences, FiniteSets, TLC

VARIABLES
    \* ---- eviction loop and local store ----
    cfg,                  \* EvictionConfig, already converted to bytes
    bucket,               \* local store: key -> size of the objects present
    index,                \* RustfsStorage.index: ts -> [key, size_bytes]
    archive,              \* keys present in the remote archive
    archive_up,           \* environment: the archive answers a PUT with success
    next_key,             \* next capture timestamp the ingest side will store
    put_pending,          \* None, or Some(the object the ingest side has PUT
                          \* and not yet inserted into the index)
    baseline_bytes,
    baseline_objects,
    consecutive_failures,
    fallback_mode,
    fallback_entered_at,  \* None, or Some(time elapsed since that Instant)
    s3_upload_successes,
    s3_upload_failures,
    objects_deleted_without_backup,
    pc,                   \* position of the eviction task
    entries,              \* the batch listed by list_oldest_from_bucket
    pos,                  \* position of the for loop in entries
    evicted,              \* evict_batch's local counter
    in_session_index,     \* evict_batch's local flag for the current entry
    batch_result,         \* what the last batch returned to the loop
    total_bytes           \* the loop's usage sample of the tick that runs a batch

evars == <<cfg, bucket, index, archive, archive_up, next_key, put_pending,
           baseline_bytes,
           baseline_objects, consecutive_failures, fallback_mode,
           fallback_entered_at, s3_upload_successes, s3_upload_failures,
           objects_deleted_without_backup, pc, entries, pos, evicted,
           in_session_index, batch_result, total_bytes>>

VARIABLES
    \* ---- recording state machine ----
    rcfg,                 \* RecordingConfig and the other constructor arguments
    state,                \* RecordingStateMachine.state
    frame_size_filter,    \* RecordingStateMachine.frame_size_filter
    now,                  \* tokio Instant::now(), the monotonic clock
    topic,                \* the frames handed to process_frame so far
    segments,             \* rows of the segments table, in insertion order
    ffmpeg,               \* the encoders spawned so far
    outcome,              \* results of the calls the last process_frame made
    filter_call           \* None, or Some(the last call of is_active: its
                          \* arguments and its answer)

rvars == <<rcfg, state, frame_size_filter, now, topic, segments, ffmpeg,
           outcome, filter_call>>

VARIABLES
    \* ---- MJPEG multipart parser (consume_stream) ----
    byte_stream,          \* bytes of the HTTP body not yet delivered
    received,             \* bytes delivered so far, in order
    parse_state,          \* ParseState
    buffer,
    jpeg_start,
    produced              \* JPEG payloads handed to the bus, in order

pvars == <<byte_stream, received, parse_state, buffer, jpeg_start, produced>>

VARIABLES
    \* ---- producer reconnect loop (run_mjpeg_producer, run_h264_producer) ----
    producer,             \* which loop the process runs: "mjpeg" or "h264"
    backoff,              \* the loop's local, in seconds
    slept                 \* the connections so far: how each ended and the
                          \* delay slept after it

lvars == <<producer, backoff, slept>>

VARIABLES
    \* ---- wire format of the bus (TimestampedFrame) ----
    tx_frame,             \* the frame the producer built
    wire,                 \* None, or Some(the bytes of the message)
    rx_frame              \* None, or Some(what deserialize returned)

wvars == <<tx_frame, wire, rx_frame>>

VARIABLES
    \* ---- object keys of the local bucket, as text ----
    bucket_objects,       \* the objects the recorders wrote: key and times
    list_n,               \* the n of the last list_oldest_from_bucket(n)
    listing               \* None, or Some(what that call returned)

kvars == <<bucket_objects, list_n, listing>>

VARIABLES
    \* ---- API server over one robot's index (api/src/main.rs) ----
    seg_table,            \* rows of the segments table, in rowid order
    collections,          \* rows of the collections table
    collection_clips,     \* rows of the collection_clips table
    sqlite_sequence,      \* AUTOINCREMENT: the last id given out per table
    labelled_data,        \* manifests in the labelled-data bucket, by key
    api_now,              \* chrono::Utc::now() of the API process
    request,              \* the last request handled
    reply                 \* its reply: status and body

avars == <<seg_table, collections, collection_clips, sqlite_sequence,
           labelled_data, api_now, request, reply>>

VARIABLES
    \* ---- MPEG-TS aligner of the H.264 producer (consume_h264_stream) ----
    tcp_stream,           \* bytes of the connection not yet read
    tcp_received,         \* bytes read so far, in order
    ts_buf,
    ts_offset,            \* how many bytes of the stream came before ts_buf
    ts_packets,           \* packets handed to the PES assembler: bytes and
                          \* where in the stream they started
    pes_assembler,        \* PesAssembler: current_pes, video_pid, collecting
    access_units          \* access units push_ts_packet returned: bytes and
                          \* the number of the packet that completed them

tvars == <<tcp_stream, tcp_received, ts_buf, ts_offset, ts_packets,
           pes_assembler, access_units>>

\* the components besides the eviction loop, the recorder and the parser
ovars == <<lvars, wvars, kvars, avars, tvars>>

\* what a step of one of these components leaves alone
but_lvars == <<evars, rvars, pvars, wvars, kvars, avars, tvars>>
but_wvars == <<evars, rvars, pvars, lvars, kvars, avars, tvars>>
but_kvars == <<evars, rvars, pvars, lvars, wvars, avars, tvars>>
but_avars == <<evars, rvars, pvars, lvars, wvars, kvars, tvars>>
but_tvars == <<evars, rvars, pvars, lvars, wvars, kvars, avars>>

vars == <<evars, rvars, pvars, ovars>>

\* ------------------------------------------------------- program constants
BytesPerGb == 1073741824
BackoffFailures == 3
DefaultBatchSize == 50
\* Duration::from_secs(2) and max_backoff of the producer loops, in seconds
InitialBackoffSecs == 2
MaxBackoffSecs == 30
\* wire format of TimestampedFrame
V1_HEADER_SIZE == 16
V2_HEADER_SIZE == 22
V2_MARKER == 2
\* list_segments: q.limit.unwrap_or(100).min(1000)
DefaultLimit == 100
MaxLimit == 1000
\* i64::MAX at the width of the checker's integers; i64::MIN is its negative
\* MPEG-TS: packet size and sync byte (0x47)
TS_PACKET_SIZE == 188
TS_SYNC_BYTE == 71
I64_MAX == 2147483647
I64_MIN == -I64_MAX

\* ------------------------------------------------------------------ bounds
\* capture timestamps (keys) the ingest side may use, and object sizes
MaxKeys == 3
MaxSize == 2
\* objects already in the bucket at startup
MaxBaseline == MaxKeys - 2
\* caps of the two health counters, which the code never resets; the cap of
\* the successes leaves room for one full batch
MaxUploads == IF cfg.batch_size > MaxKeys THEN cfg.batch_size ELSE MaxKeys
MaxFailures == BackoffFailures

None == <<>>
Some(x) == <<x>>

Min(a, b) == IF a < b THEN a ELSE b

\* u64::saturating_sub
SatSub(a, b) == IF a > b THEN a - b ELSE 0

\* (gb * 1_073_741_824.0) as u64, for gb given in tenths; evaluated without
\* leaving 32 bits
GbToBytes(tenths) ==
    tenths * (BytesPerGb \div 10) + (tenths * (BytesPerGb % 10)) \div 10

\* parse_start_ms_from_key: recorder keys start with their start timestamp
ParseStartMs(key) == key

\* ---------------------------------------------------------------- storage

RECURSIVE SumIndex(_, _)
SumIndex(idx, ks) ==
    IF ks = {} THEN 0
    ELSE LET t == CHOOSE x \in ks : TRUE
         IN idx[t].size_bytes + SumIndex(idx, ks \ {t})

\* RustfsStorage::stats: (count, bytes) of the session index
StatsBytes(idx) == SumIndex(idx, DOMAIN idx)
StatsCount(idx) == Cardinality(DOMAIN idx)

\* the first n objects with keys lo..hi, in key order (by halves, so that a
\* large bucket does not nest deeply)
RECURSIVE ScanBucket(_, _, _, _)
ScanBucket(b, lo, hi, n) ==
    IF n = 0 \/ lo > hi THEN <<>>
    ELSE IF lo = hi
    THEN (IF lo \in DOMAIN b
          THEN <<[key |-> lo, size |-> b[lo], ts |-> ParseStartMs(lo)]>>
          ELSE <<>>)
    ELSE LET mid == (lo + hi) \div 2
             first == ScanBucket(b, lo, mid, n)
         IN first \o ScanBucket(b, mid + 1, hi, n - Len(first))

\* RustfsStorage::list_oldest_from_bucket: the n first keys in key order; a
\* failed first LIST returns the empty result
ListOldestFromBucket(b, n, list_ok) ==
    IF list_ok THEN ScanBucket(b, 1, next_key - 1, n) ELSE <<>>

\* sum of the sizes of the objects with keys lo..hi (by halves, so that a
\* large bucket does not nest deeply)
RECURSIVE SumBucket(_, _, _)
SumBucket(b, lo, hi) ==
    IF lo > hi THEN 0
    ELSE IF lo = hi THEN (IF lo \in DOMAIN b THEN b[lo] ELSE 0)
    ELSE LET mid == (lo + hi) \div 2
         IN SumBucket(b, lo, mid) + SumBucket(b, mid + 1, hi)

\* RustfsStorage::bucket_stats: the startup scan of the whole bucket
BucketStatsBytes(b) == SumBucket(b, 1, next_key - 1)
BucketStatsCount(b) == Cardinality(DOMAIN b)

Remove(f, k) == [x \in DOMAIN f \ {k} |-> f[x]]

\* ------------------------------------------------------ eviction thresholds
FallbackThresholdBytes ==
    IF cfg.fallback_threshold_bytes > 0
    THEN cfg.fallback_threshold_bytes ELSE cfg.threshold_bytes

FallbackTargetBytes ==
    SatSub(FallbackThresholdBytes, SatSub(cfg.threshold_bytes, cfg.target_bytes))

Total == baseline_bytes + StatsBytes(index)

\* ------------------------------------------------- decisions of the loop
\* mutant: the threshold itself already counts as over
MutIsOverThreshold(total, active_threshold) == total >= active_threshold

\* total_bytes > active_threshold
IsOverThreshold(total, active_threshold) == total > active_threshold

ActiveThreshold(fb) == IF fb THEN FallbackThresholdBytes ELSE cfg.threshold_bytes

\* mutant: the cooldown is not waited for
MutHealthCheckDue(elapsed) == elapsed >= 0

\* entered.elapsed() >= Duration::from_secs(fallback_retry_secs)
HealthCheckDue(elapsed) == elapsed >= cfg.fallback_retry_secs

\* mutant: off by one, fallback one failure late
MutEntersFallback(cf) == cf > cfg.fallback_after_failures

\* consecutive_failures >= eviction_config.fallback_after_failures
EntersFallback(cf) == cf >= cfg.fallback_after_failures

\* else if consecutive_failures >= 3
BacksOff(cf) == cf >= BackoffFailures

\* mutant: the batch never stops before its last object
MutBelowTarget(total, target) == total < 0

\* current_total < target_bytes
BelowTarget(total, target) == total < target

\* mutant: the result of the archive PUT is ignored
MutAfterPut(put_ok) == "delete"

\* match put_result: Ok goes on to the local DELETE, Err returns Upload
AfterPut(put_ok) == IF put_ok THEN "delete" ELSE "upload_err"

\* mutant: counted before the DELETE result is looked at
MutCountsWithoutBackup(del_ok) == 1

\* fallback_evict_batch: a failed DELETE continues, a successful one counts
CountsWithoutBackup(del_ok) == IF del_ok THEN 1 ELSE 0

\* the object leaves the baseline accounting when it was not in the index
BaselineAfter(bytes, in_index, size) ==
    IF in_index THEN bytes ELSE SatSub(bytes, size)

EndBatch ==
    /\ entries' = <<>>
    /\ pos' = 0
    /\ evicted' = 0
    /\ in_session_index' = FALSE
    /\ total_bytes' = 0

\* run_eviction_loop, Ok(count) arm of evict_batch
OkArm(count) ==
    /\ s3_upload_successes + count <= MaxUploads
    /\ s3_upload_successes' = s3_upload_successes + count
    /\ consecutive_failures' = 0
    /\ batch_result' = "ok"
    /\ pc' = "sleep"
    /\ UNCHANGED <<fallback_mode, fallback_entered_at, s3_upload_failures>>

\* run_eviction_loop, Err(e) arm of evict_batch
ErrArm(kind) ==
    LET cf == consecutive_failures + 1 IN
    /\ s3_upload_failures < MaxFailures
    /\ consecutive_failures' = cf
    /\ s3_upload_failures' = s3_upload_failures + 1
    /\ batch_result' = kind
    /\ IF EntersFallback(cf)
       THEN /\ fallback_mode' = TRUE
            /\ fallback_entered_at' = Some(0)
            /\ pc' = "sleep"
       ELSE /\ UNCHANGED <<fallback_mode, fallback_entered_at>>
            /\ pc' = IF BacksOff(cf) THEN "backoff" ELSE "sleep"
    /\ UNCHANGED s3_upload_successes

\* ----------------------------------------------------------------- actions

\* run_eviction_loop before the loop: the startup scan gives the baseline
Startup ==
    /\ pc = "start"
    /\ baseline_bytes' = BucketStatsBytes(bucket)
    /\ baseline_objects' = BucketStatsCount(bucket)
    /\ pc' = "sleep"
    /\ UNCHANGED put_pending
    /\ UNCHANGED <<cfg, bucket, index, archive, archive_up, next_key,
                   consecutive_failures, fallback_mode, fallback_entered_at,
                   s3_upload_successes, s3_upload_failures,
                   objects_deleted_without_backup, entries, pos, evicted,
                   in_session_index, batch_result, total_bytes>>
    /\ UNCHANGED <<rvars, pvars, ovars>>

\* put_idle_frame / put_segment: PUT to the local store, then index insert.
\* The ingest side stores between two ticks of the eviction task.
Put(size) ==
    /\ pc = "sleep"
    /\ put_pending = None
    /\ next_key <= MaxKeys
    /\ bucket' = [k \in DOMAIN bucket \cup {next_key} |->
                    IF k = next_key THEN size ELSE bucket[k]]
    /\ index' = [t \in DOMAIN index \cup {ParseStartMs(next_key)} |->
                    IF t = ParseStartMs(next_key)
                    THEN [key |-> next_key, size_bytes |-> size]
                    ELSE index[t]]
    /\ next_key' = next_key + 1
    /\ UNCHANGED put_pending
    /\ UNCHANGED <<cfg, archive, archive_up, baseline_bytes, baseline_objects,
                   consecutive_failures, fallback_mode, fallback_entered_at,
                   s3_upload_successes, s3_upload_failures,
                   objects_deleted_without_backup, pc, entries, pos, evicted,
                   in_session_index, batch_result, total_bytes>>
    /\ UNCHANGED <<rvars, pvars, ovars>>

\* put_idle_frame / put_segment up to the answer of the local store: the
\* object is in the bucket, the index does not have it yet. The frame loop
\* runs beside the eviction task, whatever that task is doing.
PutSend(size) ==
    /\ pc # "start"
    /\ put_pending = None
    /\ next_key <= MaxKeys
    /\ bucket' = [k \in DOMAIN bucket \cup {next_key} |->
                    IF k = next_key THEN size ELSE bucket[k]]
    /\ put_pending' = Some([key |-> next_key, size_bytes |-> size])
    /\ next_key' = next_key + 1
    /\ UNCHANGED <<cfg, index, archive, archive_up, baseline_bytes,
                   baseline_objects, consecutive_failures, fallback_mode,
                   fallback_entered_at, s3_upload_successes, s3_upload_failures,
                   objects_deleted_without_backup, pc, entries, pos, evicted,
                   in_session_index, batch_result, total_bytes>>
    /\ UNCHANGED <<rvars, pvars, ovars>>

\* the rest of put_idle_frame / put_segment: self.index.lock().await.insert
PutIndexed ==
    /\ put_pending # None
    /\ LET o == put_pending[1]
       IN index' = [t \in DOMAIN index \cup {ParseStartMs(o.key)} |->
                       IF t = ParseStartMs(o.key)
                       THEN [key |-> o.key, size_bytes |-> o.size_bytes]
                       ELSE index[t]]
    /\ put_pending' = None
    /\ UNCHANGED <<cfg, bucket, archive, archive_up, next_key, baseline_bytes,
                   baseline_objects, consecutive_failures, fallback_mode,
                   fallback_entered_at, s3_upload_successes, s3_upload_failures,
                   objects_deleted_without_backup, pc, entries, pos, evicted,
                   in_session_index, batch_result, total_bytes>>
    /\ UNCHANGED <<rvars, pvars, ovars>>

\* the archive becomes reachable or unreachable
ArchiveFlip ==
    /\ archive_up' = ~archive_up
    /\ UNCHANGED put_pending
    /\ UNCHANGED <<cfg, bucket, index, archive, next_key, baseline_bytes,
                   baseline_objects, consecutive_failures, fallback_mode,
                   fallback_entered_at, s3_upload_successes, s3_upload_failures,
                   objects_deleted_without_backup, pc, entries, pos, evicted,
                   in_session_index, batch_result, total_bytes>>
    /\ UNCHANGED <<rvars, pvars, ovars>>

\* tokio::time::sleep(interval) returns after dt >= interval
Sleep(dt) ==
    /\ pc = "sleep"
    /\ pc' = "awake"
    /\ fallback_entered_at' =
         IF fallback_entered_at = None THEN None
         ELSE Some(Min(fallback_entered_at[1] + dt, cfg.fallback_retry_secs))
    /\ UNCHANGED put_pending
    /\ UNCHANGED <<cfg, bucket, index, archive, archive_up, next_key,
                   baseline_bytes, baseline_objects, consecutive_failures,
                   fallback_mode, s3_upload_successes, s3_upload_failures,
                   objects_deleted_without_backup, entries, pos, evicted,
                   in_session_index, total_bytes>>
    /\ batch_result' = "none"
    /\ UNCHANGED <<rvars, pvars, ovars>>

\* the 5 minute back-off sleep ends; the loop goes back to its interval sleep
BackoffDone ==
    /\ pc = "backoff"
    /\ pc' = "sleep"
    /\ UNCHANGED put_pending
    /\ UNCHANGED <<cfg, bucket, index, archive, archive_up, next_key,
                   baseline_bytes, baseline_objects, consecutive_failures,
                   fallback_mode, fallback_entered_at, s3_upload_successes,
                   s3_upload_failures, objects_deleted_without_backup, entries,
                   pos, evicted, in_session_index, batch_result, total_bytes>>
    /\ UNCHANGED <<rvars, pvars, ovars>>

\* One iteration of the loop up to the call of the batch: the fallback health
\* check (test_s3_upload), the usage sample, and the listing of the batch.
Check(list_ok) ==
    /\ pc = "awake"
    /\ LET due == /\ fallback_mode
                  /\ fallback_entered_at # None
                  /\ HealthCheckDue(fallback_entered_at[1])
           test_ok == archive_up
           fm == IF due /\ test_ok THEN FALSE ELSE fallback_mode
           fea == IF due THEN (IF test_ok THEN None ELSE Some(0))
                  ELSE fallback_entered_at
           cf == IF due /\ test_ok THEN 0 ELSE consecutive_failures
           over == IsOverThreshold(Total, ActiveThreshold(fm))
           es == ListOldestFromBucket(bucket, cfg.batch_size, list_ok)
       IN  /\ fallback_mode' = fm
           /\ fallback_entered_at' = fea
           /\ IF ~over
              THEN /\ consecutive_failures' = cf
                   /\ pc' = "sleep"
                   /\ batch_result' = "none"
                   /\ UNCHANGED <<entries, pos, total_bytes>>
              ELSE IF es = <<>>
              THEN /\ consecutive_failures' = IF fm THEN cf ELSE 0
                   /\ pc' = "sleep"
                   /\ batch_result' = "ok"
                   /\ UNCHANGED <<entries, pos, total_bytes>>
              ELSE /\ consecutive_failures' = cf
                   /\ pc' = IF fm THEN "fb_delete" ELSE "upload"
                   /\ batch_result' = "none"
                   /\ entries' = es
                   /\ pos' = 1
                   /\ total_bytes' = Total
    /\ UNCHANGED put_pending
    /\ UNCHANGED <<cfg, bucket, index, archive, archive_up, next_key,
                   baseline_bytes, baseline_objects, s3_upload_successes,
                   s3_upload_failures, objects_deleted_without_backup, evicted,
                   in_session_index>>
    /\ UNCHANGED <<rvars, pvars, ovars>>

\* evict_batch, first half of one loop turn: index lookup, GET from the local
\* store, PUT to the archive
EvictUpload(get_ok) ==
    /\ pc = "upload"
    /\ LET e == entries[pos]
           put_ok == archive_up
           next == IF get_ok THEN AfterPut(put_ok) ELSE "download_err"
       IN  /\ archive' = IF get_ok /\ put_ok THEN archive \cup {e.key}
                          ELSE archive
           /\ IF next = "delete"
              THEN /\ in_session_index' = (e.ts \in DOMAIN index)
                   /\ pc' = "delete"
                   /\ UNCHANGED <<consecutive_failures, fallback_mode,
                                  fallback_entered_at, s3_upload_successes,
                                  s3_upload_failures, batch_result, entries,
                                  pos, evicted, total_bytes>>
              ELSE /\ ErrArm(IF get_ok THEN "upload" ELSE "download")
                   /\ EndBatch
    /\ UNCHANGED put_pending
    /\ UNCHANGED <<cfg, bucket, index, archive_up, next_key, baseline_bytes,
                   baseline_objects, objects_deleted_without_backup>>
    /\ UNCHANGED <<rvars, pvars, ovars>>

\* evict_batch, second half of one loop turn: DELETE from the local store,
\* baseline adjustment, target check
EvictDelete(del_ok) ==
    /\ pc = "delete"
    /\ LET e == entries[pos]
           idx == IF del_ok THEN Remove(index, e.ts) ELSE index
           bb == BaselineAfter(baseline_bytes, in_session_index, e.size)
           bo == BaselineAfter(baseline_objects, in_session_index, 1)
       IN  /\ bucket' = IF del_ok THEN Remove(bucket, e.key) ELSE bucket
           /\ index' = idx
           /\ baseline_bytes' = bb
           /\ baseline_objects' = bo
           /\ IF BelowTarget(bb + StatsBytes(idx), cfg.target_bytes)
                 \/ pos = Len(entries)
              THEN /\ OkArm(evicted + 1)
                   /\ EndBatch
              ELSE /\ pc' = "upload"
                   /\ pos' = pos + 1
                   /\ evicted' = evicted + 1
                   /\ UNCHANGED <<consecutive_failures, fallback_mode,
                                  fallback_entered_at, s3_upload_successes,
                                  s3_upload_failures, batch_result, entries,
                                  in_session_index, total_bytes>>
    /\ UNCHANGED put_pending
    /\ UNCHANGED <<cfg, archive, archive_up, next_key,
                   objects_deleted_without_backup>>
    /\ UNCHANGED <<rvars, pvars, ovars>>

\* fallback_evict_batch, one loop turn: DELETE without archive PUT
FallbackDelete(del_ok) ==
    /\ pc = "fb_delete"
    /\ LET e == entries[pos]
           ins == e.ts \in DOMAIN index
           idx == IF del_ok THEN Remove(index, e.ts) ELSE index
           bb == IF del_ok THEN BaselineAfter(baseline_bytes, ins, e.size)
                 ELSE baseline_bytes
           bo == IF del_ok THEN BaselineAfter(baseline_objects, ins, 1)
                 ELSE baseline_objects
       IN  /\ bucket' = IF del_ok THEN Remove(bucket, e.key) ELSE bucket
           /\ index' = idx
           /\ baseline_bytes' = bb
           /\ baseline_objects' = bo
           /\ objects_deleted_without_backup' =
                objects_deleted_without_backup + CountsWithoutBackup(del_ok)
           /\ IF (del_ok /\ BelowTarget(bb + StatsBytes(idx), FallbackTargetBytes))
                 \/ pos = Len(entries)
              THEN /\ pc' = "sleep"
                   /\ batch_result' = "ok"
                   /\ EndBatch
              ELSE /\ pos' = pos + 1
                   /\ evicted' = evicted + (IF del_ok THEN 1 ELSE 0)
                   /\ UNCHANGED <<pc, batch_result, entries, in_session_index,
                                  total_bytes>>
    /\ UNCHANGED put_pending
    /\ UNCHANGED <<cfg, archive, archive_up, next_key, consecutive_failures,
                   fallback_mode, fallback_entered_at, s3_upload_successes,
                   s3_upload_failures>>
    /\ UNCHANGED <<rvars, pvars, ovars>>

\* =============================================== recording state machine

\* --------------------------------------------------- program constants
\* FrameSizeFilter::new: warmup_frames, and alpha = 0.05 = 1 / AlphaInverse
WarmupFrames == 30
AlphaInverse == 20
\* NAL unit types: 5 = IDR keyframe, 1 = non-IDR (P-frame)
IdrNalType == 5
PFrameNalType == 1

\* ---------------------------------------------------------------- bounds
\* frames of one run that are chosen freely
MaxFrames == 4

\* RecordingState; the Option around it is the kind "None", and a panic inside
\* process_frame ends the frame loop (kind "Panic")
NoState == [kind |-> "None"]
Panic == [kind |-> "Panic"]

Idle(payload, h264, hash, start_ms, last_ms) ==
    [kind |-> "Idle", initial_payload |-> payload, is_h264 |-> h264,
     initial_hash |-> hash, idle_start_ms |-> start_ms,
     last_similar_ms |-> last_ms]

Active(enc, h264, deadline, start_ms, hash, count) ==
    [kind |-> "Active", encoder |-> enc, is_h264 |-> h264,
     segment_deadline |-> deadline, segment_start_ms |-> start_ms,
     last_frame_hash |-> hash, consecutive_idle_count |-> count]

\* ------------------------------------------------------------- filter/phash
RECURSIVE SumSeq(_)
SumSeq(s) == IF s = <<>> THEN 0 ELSE s[1] + SumSeq(Tail(s))

\* compute_ahash: jpeg_data is modelled by the gray pixels it decodes to (no
\* pixels: not decodable); a bit is set where the pixel is above the mean
compute_ahash(jpeg_data) ==
    IF jpeg_data = <<>> THEN None
    ELSE Some([i \in 1..Len(jpeg_data) |->
                 jpeg_data[i] * Len(jpeg_data) > SumSeq(jpeg_data)])

hamming(a, b) == Cardinality({i \in 1..Min(Len(a), Len(b)) : a[i] # b[i]})

\* --------------------------------------------------------- filter/framesize
RECURSIVE Gcd(_, _)
Gcd(a, b) == IF b = 0 THEN a ELSE Gcd(b, a % b)

\* the moving average is kept as an exact fraction in lowest terms
Fraction(n, d) ==
    LET g == Gcd(n, d) IN [num |-> n \div g, den |-> d \div g]

\* avg = alpha * size + (1 - alpha) * avg, or size when avg is still 0.0
update_ema(f, frame_size) ==
    LET a == f.avg_p_frame_size IN
    IF a.num = 0
    THEN [f EXCEPT !.avg_p_frame_size = [num |-> frame_size, den |-> 1]]
    ELSE [f EXCEPT !.avg_p_frame_size =
            Fraction(frame_size * a.den + (AlphaInverse - 1) * a.num,
                     AlphaInverse * a.den)]

MutIsSpike(f, frame_size) ==
    /\ f.avg_p_frame_size.num > 0
    /\ frame_size * f.avg_p_frame_size.den
         >= rcfg.spike_ratio * f.avg_p_frame_size.num

\* avg > 0.0 && frame_size > spike_ratio * avg
IsSpike(f, frame_size) ==
    /\ f.avg_p_frame_size.num > 0
    /\ frame_size * f.avg_p_frame_size.den
         > rcfg.spike_ratio * f.avg_p_frame_size.num

\* FrameSizeFilter::is_active: the filter after the call and the answer
is_active(f, frame_size, nal_type) ==
    LET seen == [f EXCEPT !.frames_seen = @ + 1] IN
    IF nal_type = IdrNalType THEN [filter |-> seen, active |-> TRUE]
    ELSE IF seen.frames_seen <= WarmupFrames
    THEN [filter |-> update_ema(seen, frame_size), active |-> TRUE]
    ELSE [filter |-> update_ema(seen, frame_size),
          active |-> IsSpike(seen, frame_size)]

\* FrameSizeFilter::is_quiet
is_quiet(f, frame_size) ==
    IF f.avg_p_frame_size.num <= 0 THEN FALSE
    ELSE frame_size * f.avg_p_frame_size.den
           <= rcfg.spike_ratio * f.avg_p_frame_size.num

\* ------------------------------------------------------------ recorder/keys
idle_jpeg_key(start_ms, end_ms) ==
    [form |-> "camera", start |-> start_ms, end |-> end_ms, ext |-> "jpg"]

active_segment_key(start_ms, end_ms) ==
    [form |-> "camera", start |-> start_ms, end |-> end_ms, ext |-> "mp4"]

\* format!("idle:{}/{}", idle_start_ms, idle_end_ms)
IdlePeriodKey(start_ms, end_ms) ==
    [form |-> "idle:", start |-> start_ms, end |-> end_ms, ext |-> ""]

\* ----------------------------------------------------------------------- db
\* frame_count is NULL (-1 here) in an idle row
insert_active(rows, start_ms, end_ms, s3_key, size_bytes, frame_count) ==
    Append(rows, [type |-> "active", start_ms |-> start_ms, end_ms |-> end_ms,
                  s3_key |-> s3_key, size_bytes |-> size_bytes,
                  frame_count |-> frame_count])

insert_idle(rows, start_ms, end_ms, s3_key, size_bytes) ==
    Append(rows, [type |-> "idle", start_ms |-> start_ms, end_ms |-> end_ms,
                  s3_key |-> s3_key, size_bytes |-> size_bytes,
                  frame_count |-> -1])

\* ------------------------------------------------- what a handler acts on
\* the store, the session index, the segments table and the encoders
World ==
    [bucket |-> bucket, index |-> index, segments |-> segments,
     ffmpeg |-> ffmpeg]

Store(f, k, v) == [x \in DOMAIN f \cup {k} |-> IF x = k THEN v ELSE f[x]]

\* put_idle_frame / put_segment: the index entry is made after a PUT that
\* succeeded
PutObject(w, key, size, start_ms) ==
    [w EXCEPT !.bucket = Store(@, key, size),
              !.index = Store(@, start_ms, [key |-> key, size_bytes |-> size])]

\* db is an Option, and an INSERT can fail: the error is logged
InsertRow(w, rows, insert_ok) ==
    IF rcfg.db /\ insert_ok THEN [w EXCEPT !.segments = rows] ELSE w

\* ---------------------------------------------------------- recorder/encoder
\* mutant: the encoder does not keep the start of its segment
MutSpawn(w, start_ms) ==
    [w EXCEPT !.ffmpeg = Append(@, [start_ms |-> 0, frame_count |-> 0,
                                    pushed |-> <<>>, finished |-> 0])]

\* SegmentEncoder::start / start_passthrough: a new child process
Spawn(w, start_ms) ==
    [w EXCEPT !.ffmpeg = Append(@, [start_ms |-> start_ms, frame_count |-> 0,
                                    pushed |-> <<>>, finished |-> 0])]

\* push_frame / push_h264 that succeeded
Push(w, enc, ts) ==
    [w EXCEPT !.ffmpeg[enc].frame_count = @ + 1,
              !.ffmpeg[enc].pushed = Append(@, ts)]

\* SegmentEncoder::finish consumes the encoder
Finish(w, enc) == [w EXCEPT !.ffmpeg[enc].finished = @ + 1]

\* size of the MP4 that ffmpeg wrote, taken as one byte per frame
Mp4Bytes(p) == p.frame_count

\* ------------------------------------------------ decisions of the recorder
\* mutant: a distance equal to the threshold is not similar
MutSimilar(dist) == dist < rcfg.phash_threshold

\* dist <= self.phash_threshold
Similar(dist) == dist <= rcfg.phash_threshold

\* mutant: the deadline itself does not roll the segment yet
MutDeadlineReached(t, segment_deadline) == t > segment_deadline

\* Instant::now() >= segment_deadline
DeadlineReached(t, segment_deadline) == t >= segment_deadline

\* mutant: one similar frame fewer is enough
MutStabilizedEarly(count) ==
    count + 1 >= rcfg.active_to_idle_consecutive_frames

\* mutant: one similar frame too many is asked for
MutStabilized(count) == count > rcfg.active_to_idle_consecutive_frames

\* consecutive_idle_count >= self.config.active_to_idle_consecutive_frames
Stabilized(count) == count >= rcfg.active_to_idle_consecutive_frames

\* mutant: the idle record ends at the frame that changed the scene
MutIdleEndMs(last_similar_ms, captured_at_ms) == captured_at_ms

\* the idle record ends at last_similar_ms
IdleEndMs(last_similar_ms, captured_at_ms) == last_similar_ms

\* ------------------------------------------------------------ shared helpers
\* mutant: the idle row is written whether or not the PUT succeeded
MutUploadIdleRecord(w, initial_payload, is_h264, idle_start_ms, idle_end_ms, o) ==
    LET key == IF is_h264 THEN IdlePeriodKey(idle_start_ms, idle_end_ms)
               ELSE idle_jpeg_key(idle_start_ms, idle_end_ms)
        size == IF is_h264 THEN 0 ELSE Len(initial_payload)
        w1 == IF ~is_h264 /\ o.put
              THEN PutObject(w, key, size, idle_start_ms) ELSE w
    IN InsertRow(w1, insert_idle(w.segments, idle_start_ms, idle_end_ms, key,
                                 size),
                 o.insert)

\* upload_idle_record; o holds the outcomes of the calls the handler makes
upload_idle_record(w, initial_payload, is_h264, idle_start_ms, idle_end_ms, o) ==
    IF is_h264
    THEN InsertRow(w, insert_idle(w.segments, idle_start_ms, idle_end_ms,
                                  IdlePeriodKey(idle_start_ms, idle_end_ms), 0),
                   o.insert)
    ELSE LET jpeg_key == idle_jpeg_key(idle_start_ms, idle_end_ms)
             jpeg_size == Len(initial_payload)
         IN IF o.put
            THEN InsertRow(PutObject(w, jpeg_key, jpeg_size, idle_start_ms),
                           insert_idle(w.segments, idle_start_ms, idle_end_ms,
                                       jpeg_key, jpeg_size),
                           o.insert)
            ELSE w

\* finish_and_upload_segment
finish_and_upload_segment(w, enc, end_ms, o) ==
    LET p == w.ffmpeg[enc]
        start_ms == p.start_ms
        w1 == Finish(w, enc)
        key == active_segment_key(start_ms, end_ms)
        size_bytes == Mp4Bytes(p)
    IN IF o.finish /\ o.put
       THEN InsertRow(PutObject(w1, key, size_bytes, start_ms),
                      insert_active(w.segments, start_ms, end_ms, key,
                                    size_bytes, p.frame_count),
                      o.insert)
       ELSE w1

\* start_active_segment_jpeg / start_active_segment_h264: None when the spawn
\* or the first push fails
StartActiveSegment(w, t, frame, h264, hash, o) ==
    IF ~o.start THEN [w |-> w, state |-> NoState]
    ELSE LET enc == Len(w.ffmpeg) + 1
             w1 == Spawn(w, frame.captured_at_ms)
         IN IF ~o.push THEN [w |-> w1, state |-> NoState]
            ELSE [w |-> Push(w1, enc, frame.captured_at_ms),
                  state |-> Active(enc, h264,
                                   t + rcfg.segment_duration_secs,
                                   frame.captured_at_ms, hash, 0)]

start_active_segment_jpeg(w, t, frame, hash, o) ==
    StartActiveSegment(w, t, frame, FALSE, Some(hash), o)

start_active_segment_h264(w, t, frame, o) ==
    StartActiveSegment(w, t, frame, TRUE, None, o)

\* mutant: the new idle period has no similar frame yet
MutIdleFrom(frame, h264, hash) ==
    Idle(frame.data, h264, hash, frame.captured_at_ms, 0)

\* the Idle state every fallback path builds from the current frame
IdleFrom(frame, h264, hash) ==
    Idle(frame.data, h264, hash, frame.captured_at_ms, frame.captured_at_ms)

\* a started segment, or Idle with the frame as the new baseline
ActiveOrIdle(r, frame, h264, hash) ==
    IF r.state.kind = "Active" THEN r
    ELSE [w |-> r.w, state |-> IdleFrom(frame, h264, hash)]

\* ---------------------------------------------------------------- JPEG path
handle_idle_jpeg(w, t, st, frame, hash, o) ==
    IF st.initial_hash = None THEN [w |-> w, state |-> Panic]
    ELSE IF Similar(hamming(st.initial_hash[1], hash))
    THEN [w |-> w,
          state |-> Idle(st.initial_payload, FALSE, st.initial_hash,
                         st.idle_start_ms, frame.captured_at_ms)]
    ELSE LET w1 == upload_idle_record(w, st.initial_payload, FALSE,
                       st.idle_start_ms,
                       IdleEndMs(st.last_similar_ms, frame.captured_at_ms), o)
         IN ActiveOrIdle(start_active_segment_jpeg(w1, t, frame, hash, o),
                         frame, FALSE, Some(hash))

handle_active_jpeg(w, t, st, frame, hash, o) ==
    IF DeadlineReached(t, st.segment_deadline)
    THEN LET w1 == finish_and_upload_segment(w, st.encoder,
                                             frame.captured_at_ms, o)
         IN ActiveOrIdle(start_active_segment_jpeg(w1, t, frame, hash, o),
                         frame, FALSE, Some(hash))
    ELSE IF ~o.push
    THEN [w |-> finish_and_upload_segment(w, st.encoder,
                                          frame.captured_at_ms, o),
          state |-> IdleFrom(frame, FALSE, Some(hash))]
    ELSE LET w1 == Push(w, st.encoder, frame.captured_at_ms) IN
         IF st.last_frame_hash = None THEN [w |-> w1, state |-> Panic]
         ELSE IF Similar(hamming(st.last_frame_hash[1], hash))
         THEN IF Stabilized(st.consecutive_idle_count + 1)
              THEN [w |-> finish_and_upload_segment(w1, st.encoder,
                                                    frame.captured_at_ms, o),
                    state |-> IdleFrom(frame, FALSE, Some(hash))]
              ELSE [w |-> w1,
                    state |-> Active(st.encoder, FALSE, st.segment_deadline,
                                     st.segment_start_ms, Some(hash),
                                     st.consecutive_idle_count + 1)]
         ELSE [w |-> w1,
               state |-> Active(st.encoder, FALSE, st.segment_deadline,
                                st.segment_start_ms, Some(hash), 0)]

\* process_jpeg_frame: the filter is not touched
process_jpeg_frame(w, t, st, f, frame, o) ==
    LET h == compute_ahash(frame.data) IN
    IF h = None THEN [w |-> w, state |-> st, filter |-> f]
    ELSE IF st.kind = "None"
    THEN [w |-> w, state |-> IdleFrom(frame, FALSE, h), filter |-> f]
    ELSE LET r == IF st.kind = "Idle"
                  THEN handle_idle_jpeg(w, t, st, frame, h[1], o)
                  ELSE handle_active_jpeg(w, t, st, frame, h[1], o)
         IN [w |-> r.w, state |-> r.state, filter |-> f]

\* --------------------------------------------------------------- H.264 path
H264Idle(w, t, st, frame, active, o) ==
    IF ~active
    THEN [w |-> w,
          state |-> Idle(st.initial_payload, TRUE, None, st.idle_start_ms,
                         frame.captured_at_ms)]
    ELSE LET w1 == upload_idle_record(w, st.initial_payload, TRUE,
                       st.idle_start_ms,
                       IdleEndMs(st.last_similar_ms, frame.captured_at_ms), o)
         IN ActiveOrIdle(start_active_segment_h264(w1, t, frame, o),
                         frame, TRUE, None)

H264Active(w, t, st, f, frame, o) ==
    IF DeadlineReached(t, st.segment_deadline)
    THEN LET w1 == finish_and_upload_segment(w, st.encoder,
                                             frame.captured_at_ms, o)
         IN ActiveOrIdle(start_active_segment_h264(w1, t, frame, o),
                         frame, TRUE, None)
    ELSE IF ~o.push
    THEN [w |-> finish_and_upload_segment(w, st.encoder,
                                          frame.captured_at_ms, o),
          state |-> IdleFrom(frame, TRUE, None)]
    ELSE LET w1 == Push(w, st.encoder, frame.captured_at_ms) IN
         IF is_quiet(f, Len(frame.data))
         THEN IF Stabilized(st.consecutive_idle_count + 1)
              THEN [w |-> finish_and_upload_segment(w1, st.encoder,
                                                    frame.captured_at_ms, o),
                    state |-> IdleFrom(frame, TRUE, None)]
              ELSE [w |-> w1,
                    state |-> Active(st.encoder, TRUE, st.segment_deadline,
                                     st.segment_start_ms, None,
                                     st.consecutive_idle_count + 1)]
         ELSE [w |-> w1,
               state |-> Active(st.encoder, TRUE, st.segment_deadline,
                                st.segment_start_ms, None, 0)]

\* process_h264_frame: is_active is asked first, for every frame
process_h264_frame(w, t, st, f, frame, o) ==
    LET a == is_active(f, Len(frame.data), frame.nal_type) IN
    IF st.kind = "None"
    THEN [w |-> w, state |-> IdleFrom(frame, TRUE, None), filter |-> a.filter]
    ELSE LET r == IF st.kind = "Idle"
                  THEN H264Idle(w, t, st, frame, a.active, o)
                  ELSE H264Active(w, t, st, a.filter, frame, o)
         IN [w |-> r.w, state |-> r.state, filter |-> a.filter]

process_frame(w, t, st, f, frame, o) ==
    IF frame.kind = "Jpeg" THEN process_jpeg_frame(w, t, st, f, frame, o)
    ELSE process_h264_frame(w, t, st, f, frame, o)

\* ------------------------------------------------------ frames and outcomes
\* decoded pixels of the JPEG frames; the empty one does not decode
Images == {<<0, 0>>, <<0, 2>>, <<2, 0>>}

Bytes(n) == [i \in 1..n |-> 0]

\* access units as (length, nal_type)
AccessUnits == {<<1, PFrameNalType>>, <<5, PFrameNalType>>, <<5, IdrNalType>>}

\* capture timestamps grow with the frames
NextTs == Len(topic) + 1

\* frames 2..warmup of an H.264 run are P-frames of one size, arriving with no
\* time passing and no failing call; the other frames are chosen freely
Steady == rcfg.source = "h264" /\ NextTs \in 2..WarmupFrames

Horizon ==
    IF rcfg.source = "h264" THEN WarmupFrames + MaxFrames - 1 ELSE MaxFrames

Frames ==
    IF rcfg.source = "mjpeg"
    THEN {[kind |-> "Jpeg", data |-> d, nal_type |-> 0,
           captured_at_ms |-> NextTs] : d \in Images \cup {<<>>}}
    ELSE {[kind |-> "H264", data |-> Bytes(u[1]), nal_type |-> u[2],
           captured_at_ms |-> NextTs] :
             u \in {x \in AccessUnits :
                      /\ Steady => x = <<1, PFrameNalType>>
                      /\ NextTs <= WarmupFrames =>
                            (x[2] = IdrNalType \/ x[1] = 1)}}

\* time between two frames; only the time that passes during a segment is
\* ever compared with a deadline
ClockSteps == IF Steady \/ state.kind # "Active" THEN {0} ELSE {0, 1}

AllOk ==
    [start |-> TRUE, push |-> TRUE, finish |-> TRUE, put |-> TRUE,
     insert |-> TRUE]

\* outcomes of the calls one process_frame makes: at most one of them fails
Outcomes ==
    {o \in [start : BOOLEAN, push : BOOLEAN, finish : BOOLEAN, put : BOOLEAN,
            insert : BOOLEAN] :
        /\ Cardinality({k \in DOMAIN o : ~o[k]}) <= 1
        /\ Steady => \A k \in DOMAIN o : o[k]}

\* ------------------------------------------------------------------- action
\* one call self.frame_size_filter.is_active(frame_size, nal_type)
IsActiveCall(f, frame_size, nal_type) ==
    [frame_size |-> frame_size, nal_type |-> nal_type,
     active |-> is_active(f, frame_size, nal_type).active]

\* FrameSizeFilter::is_active called by itself, as the unit tests call it
IsActive(frame_size, nal_type) ==
    /\ frame_size_filter' =
         is_active(frame_size_filter, frame_size, nal_type).filter
    /\ filter_call' =
         Some(IsActiveCall(frame_size_filter, frame_size, nal_type))
    /\ UNCHANGED <<rcfg, state, now, topic, segments, ffmpeg, outcome>>
    /\ UNCHANGED <<evars, pvars, ovars>>

\* RecordingStateMachine::process_frame, called by the frame loop with the
\* next frame of the topic, dt after the previous call
ProcessFrame(frame, dt, o) ==
    /\ state.kind # "Panic"
    /\ LET t == now + dt
           r == process_frame(World, t, state, frame_size_filter, frame, o)
       IN  \* a failure is an input only where a call meets it
           /\ o = AllOk \/ r # process_frame(World, t, state,
                                              frame_size_filter, frame, AllOk)
           /\ now' = t
           /\ state' = r.state
           /\ frame_size_filter' = r.filter
           /\ bucket' = r.w.bucket
           /\ index' = r.w.index
           /\ segments' = r.w.segments
           /\ ffmpeg' = r.w.ffmpeg
    /\ topic' = Append(topic, frame)
    /\ outcome' = o
    /\ filter_call' =
         IF frame.kind = "H264"
         THEN Some(IsActiveCall(frame_size_filter, Len(frame.data),
                                frame.nal_type))
         ELSE filter_call
    /\ UNCHANGED put_pending
    /\ UNCHANGED <<rcfg, cfg, archive, archive_up, next_key, baseline_bytes,
                   baseline_objects, consecutive_failures, fallback_mode,
                   fallback_entered_at, s3_upload_successes, s3_upload_failures,
                   objects_deleted_without_backup, pc, entries, pos, evicted,
                   in_session_index, batch_result, total_bytes>>
    /\ UNCHANGED <<pvars, ovars>>

\* RecordingStateMachine::new
InitRecorder(rc) ==
    /\ rcfg = rc
    /\ state = NoState
    /\ frame_size_filter =
         [avg_p_frame_size |-> [num |-> 0, den |-> 1], frames_seen |-> 0]
    /\ now = 0
    /\ topic = <<>>
    /\ segments = <<>>
    /\ ffmpeg = <<>>
    /\ outcome = AllOk
    /\ filter_call = None

\* segments of 1 clock unit, back to idle after 2 similar frames, hashes of
\* two bits that are similar up to distance 1, spikes above 4 times the average
RecConfigs ==
    {[source |-> s, segment_duration_secs |-> 1,
      active_to_idle_consecutive_frames |-> 2, phash_threshold |-> 1,
      spike_ratio |-> 4, db |-> TRUE] : s \in {"mjpeg", "h264"}}

\* ===================================================== MJPEG stream parser
\* b"--frame\r\n" and b"\r\n\r\n"
BOUNDARY == <<"-", "-", "f", "r", "a", "m", "e", "\r", "\n">>
HEADER_END == <<"\r", "\n", "\r", "\n">>

\* find_subsequence: the first position (from 0) of needle in haystack
find_subsequence(haystack, needle) ==
    LET hits == {i \in 1..(Len(haystack) - Len(needle) + 1) :
                    SubSeq(haystack, i, i + Len(needle) - 1) = needle}
    IN IF hits = {} THEN None
       ELSE Some((CHOOSE i \in hits : \A j \in hits : i <= j) - 1)

\* what split_to(n) leaves in the buffer
SplitOff(buf, n) == SubSeq(buf, n + 1, Len(buf))

\* mutant: nothing is discarded while no boundary is in sight
MutRetained(buf) == buf

\* SeekingBoundary without a match: the last |BOUNDARY| bytes are kept
Retained(buf) ==
    IF Len(buf) > Len(BOUNDARY)
    THEN SplitOff(buf, Len(buf) - Len(BOUNDARY)) ELSE buf

\* mutant: the next scan starts at the end of the buffer
MutScanFrom(buf) == Len(buf)

\* CollectingJpeg without a match: where the next scan starts
ScanFrom(buf) ==
    IF Len(buf) > Len(BOUNDARY) THEN Len(buf) - Len(BOUNDARY) ELSE 0

\* the JPEG ends at jpeg_end, less a trailing \r\n
StripCrlf(buf, jpeg_end) ==
    IF jpeg_end >= 2 /\ buf[jpeg_end - 1] = "\r" /\ buf[jpeg_end] = "\n"
    THEN jpeg_end - 2 ELSE jpeg_end

\* the loop over the parse states, run until it breaks
RECURSIVE ParseLoop(_)
ParseLoop(p) ==
    IF p.state = "SeekingBoundary"
    THEN LET at == find_subsequence(p.buffer, BOUNDARY) IN
         IF at # None
         THEN ParseLoop([p EXCEPT
                  !.buffer = SplitOff(@, at[1] + Len(BOUNDARY)),
                  !.state = "SeekingHeaderEnd"])
         ELSE [p EXCEPT !.buffer = Retained(@)]
    ELSE IF p.state = "SeekingHeaderEnd"
    THEN LET at == find_subsequence(p.buffer, HEADER_END) IN
         IF at # None
         THEN ParseLoop([p EXCEPT
                  !.buffer = SplitOff(@, at[1] + Len(HEADER_END)),
                  !.jpeg_start = 0,
                  !.state = "CollectingJpeg"])
         ELSE p
    ELSE LET at == find_subsequence(SplitOff(p.buffer, p.jpeg_start),
                                     BOUNDARY) IN
         IF at # None
         THEN LET jpeg_end == p.jpeg_start + at[1]
                  end == StripCrlf(p.buffer, jpeg_end)
                  jpeg_data == SubSeq(p.buffer, 1, end)
              IN ParseLoop([p EXCEPT
                     !.buffer = SplitOff(@, jpeg_end + Len(BOUNDARY)),
                     !.produced = IF jpeg_data # <<>>
                                  THEN Append(@, jpeg_data) ELSE @,
                     !.state = "SeekingHeaderEnd"])
         ELSE [p EXCEPT !.jpeg_start = ScanFrom(p.buffer)]

\* one turn of `while let Some(chunk)`: the chunk is appended, then parsed
OnChunk(p, chunk) == ParseLoop([p EXCEPT !.buffer = @ \o chunk])

Parser ==
    [state |-> parse_state, buffer |-> buffer, jpeg_start |-> jpeg_start,
     produced |-> produced]

\* the next n bytes of the body arrive as one chunk
Chunk(n) ==
    /\ n \in 1..Len(byte_stream)
    /\ LET chunk == SubSeq(byte_stream, 1, n)
           p == OnChunk(Parser, chunk)
       IN /\ parse_state' = p.state
          /\ buffer' = p.buffer
          /\ jpeg_start' = p.jpeg_start
          /\ produced' = p.produced
          /\ received' = received \o chunk
          /\ byte_stream' = SplitOff(byte_stream, n)
    /\ UNCHANGED <<evars, rvars, ovars>>

\* consume_stream before the first chunk of the body
InitParser(body) ==
    /\ byte_stream = body
    /\ received = <<>>
    /\ parse_state = "SeekingBoundary"
    /\ buffer = <<>>
    /\ jpeg_start = 0
    /\ produced = <<>>

ParserAtRest == InitParser(<<>>)

\* ------------------------------------------------- producer reconnect loop
\* how a connection ends: consume_stream / consume_h264_stream returned
\* Ok(()) (the peer closed the stream) or Err(_)
ConnectionResults == {"clean", "failed"}

MutNextBackoff(b) == b * 2

\* backoff = (backoff * 2).min(max_backoff)
NextBackoff(b) == Min(b * 2, MaxBackoffSecs)


\* the match on the connection's result, then the value handed to sleep
SleepFor(b, result) == IF result = "clean" THEN InitialBackoffSecs ELSE b

\* one pass of the loop of either producer: connect, consume until the
\* connection ends with `result`, sleep, double
Reconnect(result) ==
    LET delay == SleepFor(backoff, result)
    IN /\ slept' = Append(slept, [result |-> result, delay |-> delay])
       /\ backoff' = NextBackoff(delay)
       /\ UNCHANGED <<producer, but_lvars>>

run_mjpeg_producer(result) ==
    /\ producer = "mjpeg"
    /\ Reconnect(result)

run_h264_producer(result) ==
    /\ producer = "h264"
    /\ Reconnect(result)

\* let mut backoff = Duration::from_secs(2)
InitLoop(which) ==
    /\ producer = which
    /\ backoff = InitialBackoffSecs
    /\ slept = <<>>

LoopAtRest == InitLoop("mjpeg")

\* ------------------------------------------------------------- wire format
\* A 64-bit integer is written as its four 16-bit limbs, most significant
\* first (two's complement for i64), so that every bit of it is kept.
\* i64::to_be_bytes / u64::to_be_bytes
U64ToBe(v) ==
    <<v[1] \div 256, v[1] % 256, v[2] \div 256, v[2] % 256,
      v[3] \div 256, v[3] % 256, v[4] \div 256, v[4] % 256>>

\* i64::from_be_bytes / u64::from_be_bytes on eight bytes
U64FromBe(b) ==
    <<b[1] * 256 + b[2], b[3] * 256 + b[4],
      b[5] * 256 + b[6], b[7] * 256 + b[8]>>

\* (len as u32).to_be_bytes()
U32ToBe(n) ==
    <<(n \div 16777216) % 256, (n \div 65536) % 256, (n \div 256) % 256,
      n % 256>>

\* u32::from_be_bytes on four bytes (the inputs keep the first byte below 128)
U32FromBe(b) == ((b[1] * 256 + b[2]) * 256 + b[3]) * 256 + b[4]

Ok(x) == <<"Ok", x>>
Err(x) == <<"Err", x>>

\* TimestampedFrame::new
NewJpeg(jpeg_data, captured_at_ms, seq) ==
    [payload |-> [kind |-> "Jpeg", data |-> jpeg_data, nal_type |-> None],
     captured_at_ms |-> captured_at_ms, seq |-> seq]

\* TimestampedFrame::new_h264
NewH264(h264_data, nal_type, captured_at_ms, seq) ==
    [payload |-> [kind |-> "H264", data |-> h264_data,
                  nal_type |-> Some(nal_type)],
     captured_at_ms |-> captured_at_ms, seq |-> seq]

\* TimestampedFrame::serialize
serialize(f) ==
    IF f.payload.kind = "Jpeg"
    THEN U64ToBe(f.captured_at_ms) \o U64ToBe(f.seq) \o f.payload.data
    ELSE <<V2_MARKER, f.payload.nal_type[1]>>
         \o U64ToBe(f.captured_at_ms) \o U64ToBe(f.seq)
         \o U32ToBe(Len(f.payload.data)) \o f.payload.data

\* data[0] == V2_MARKER
IsV2(data) == data[1] = V2_MARKER

\* TimestampedFrame::deserialize
deserialize(data) ==
    IF data = <<>>
    THEN Err([got |-> 0, expected |-> V1_HEADER_SIZE])
    ELSE IF IsV2(data)
    THEN IF Len(data) < V2_HEADER_SIZE
         THEN Err([got |-> Len(data), expected |-> V2_HEADER_SIZE])
         ELSE LET nal_type == data[2]
                  captured_at_ms == U64FromBe(SubSeq(data, 3, 10))
                  seq == U64FromBe(SubSeq(data, 11, 18))
                  h264_len == U32FromBe(SubSeq(data, 19, 22))
              IN IF Len(data) < V2_HEADER_SIZE + h264_len
                 THEN Err([got |-> Len(data),
                           expected |-> V2_HEADER_SIZE + h264_len])
                 ELSE Ok(NewH264(SubSeq(data, V2_HEADER_SIZE + 1,
                                        V2_HEADER_SIZE + h264_len),
                                 nal_type, captured_at_ms, seq))
    ELSE IF Len(data) < V1_HEADER_SIZE
         THEN Err([got |-> Len(data), expected |-> V1_HEADER_SIZE])
         ELSE Ok(NewJpeg(SubSeq(data, V1_HEADER_SIZE + 1, Len(data)),
                         U64FromBe(SubSeq(data, 1, 8)),
                         U64FromBe(SubSeq(data, 9, 16))))

\* the producer side: frame.serialize() becomes the message's payload
Serialize ==
    /\ wire = None
    /\ wire' = Some(serialize(tx_frame))
    /\ UNCHANGED <<tx_frame, rx_frame, but_wvars>>

\* the consumer side: TimestampedFrame::deserialize on the message's payload
Deserialize ==
    /\ wire # None
    /\ rx_frame = None
    /\ rx_frame' = Some(deserialize(wire[1]))
    /\ UNCHANGED <<tx_frame, wire, but_wvars>>

InitWire(f) ==
    /\ tx_frame = f
    /\ wire = None
    /\ rx_frame = None

WireAtRest == InitWire(NewJpeg(<<>>, <<0, 0, 0, 0>>, <<0, 0, 0, 0>>))

\* ------------------------------------------------------ object keys as text
\* A string is the sequence of its characters. The characters the keys use,
\* in code point order
CharOrder ==
    <<"+", "-", ".", "/", "0", "1", "2", "3", "4", "5", "6", "7", "8", "9",
      "T", "Z", "_", "a", "c", "e", "f", "g", "j", "m", "p", "r">>

CodePoint(c) == CHOOSE i \in 1..Len(CharOrder) : CharOrder[i] = c

\* byte-wise order of two strings, the order of list_objects_v2
LexLess(a, b) ==
    \E i \in 1..(Min(Len(a), Len(b)) + 1) :
        /\ \A j \in 1..(i - 1) : a[j] = b[j]
        /\ i <= Len(b)
        /\ (i <= Len(a) => CodePoint(a[i]) < CodePoint(b[i]))

\* The calendar is scaled: a day has DayMs milliseconds, the date takes two
\* digits (as %Y-%m-%d takes eight) and the time of day one (as %H%M%S%3f
\* takes nine); times stay within the dates two digits can show, as real ones
\* stay within the years four digits can show.
DayMs == 10

DecimalDigits == <<"0", "1", "2", "3", "4", "5", "6", "7", "8", "9">>

MutPadded(n, width) ==
    IF n < 10 THEN <<DecimalDigits[n + 1]>>
    ELSE <<DecimalDigits[(n \div 10) + 1], DecimalDigits[(n % 10) + 1]>>

\* a number in `width` decimal digits, zero-padded
RECURSIVE Padded(_, _)
Padded(n, width) ==
    IF width = 0 THEN <<>>
    ELSE Padded(n \div 10, width - 1) \o <<DecimalDigits[(n % 10) + 1]>>

\* keys::date_str
date_str(ms) == Padded(ms \div DayMs, 2)

\* keys::fmt_ts
fmt_ts(ms) == Padded(ms \div DayMs, 2) \o <<"T">> \o Padded(ms % DayMs, 1) \o <<"Z">>

\* "{prefix}{robot_id}/camera/{date}/{start}_{end}.{ext}"
FormatKey(prefix, robot_id, start_ms, end_ms, ext) ==
    prefix \o robot_id \o <<"/", "c", "a", "m", "e", "r", "a", "/">>
        \o date_str(start_ms) \o <<"/">> \o fmt_ts(start_ms) \o <<"_">>
        \o fmt_ts(end_ms) \o <<".">> \o ext

\* keys::idle_jpeg_key
IdleJpegKeyText(prefix, robot_id, start_ms, end_ms) ==
    FormatKey(prefix, robot_id, start_ms, end_ms, <<"j", "p", "g">>)

\* keys::active_segment_key
ActiveSegmentKeyText(prefix, robot_id, start_ms, end_ms) ==
    FormatKey(prefix, robot_id, start_ms, end_ms, <<"m", "p", "4">>)

\* the part of s after the last c (all of s without one): rsplit(c).next()
AfterLast(s, c) ==
    LET at == {i \in 1..Len(s) : s[i] = c}
    IN IF at = {} THEN s
       ELSE SubSeq(s, (CHOOSE i \in at : \A j \in at : j <= i) + 1, Len(s))

\* the part of s before the first c (all of s without one): split(c).next()
BeforeFirst(s, c) ==
    LET at == {i \in 1..Len(s) : s[i] = c}
    IN IF at = {} THEN s
       ELSE SubSeq(s, 1, (CHOOSE i \in at : \A j \in at : i <= j) - 1)

\* trim_end_matches(c)
RECURSIVE TrimEnd(_, _)
TrimEnd(s, c) ==
    IF s # <<>> /\ s[Len(s)] = c THEN TrimEnd(SubSeq(s, 1, Len(s) - 1), c)
    ELSE s

IsDigits(s) == \A i \in 1..Len(s) : \E v \in 1..10 : DecimalDigits[v] = s[i]

RECURSIVE DecimalValue(_)
DecimalValue(s) ==
    IF s = <<>> THEN 0
    ELSE DecimalValue(SubSeq(s, 1, Len(s) - 1)) * 10
         + (CHOOSE v \in 1..10 : DecimalDigits[v] = s[Len(s)]) - 1

\* storage::parse_start_ms_from_key: the text between the last '/' and the
\* first '_' after it, without the trailing 'Z', parsed as a timestamp
parse_start_ms_from_key(key) ==
    LET filename == AfterLast(key, "/")
        start_part == BeforeFirst(filename, "_")
        clean == TrimEnd(start_part, "Z")
        width == Len(fmt_ts(0)) - 1
    IN IF Len(clean) < width THEN None
       ELSE IF /\ Len(clean) = width
               /\ IsDigits(SubSeq(clean, 1, 2))
               /\ clean[3] = "T"
               /\ IsDigits(SubSeq(clean, 4, width))
            THEN Some(DecimalValue(SubSeq(clean, 1, 2)) * DayMs
                      + DecimalValue(SubSeq(clean, 4, width)))
            ELSE None

\* the keys of a bucket in the order list_objects_v2 returns them
RECURSIVE KeyOrder(_)
KeyOrder(keys) ==
    IF keys = {} THEN <<>>
    ELSE LET first == CHOOSE k \in keys :
                          \A o \in keys : o = k \/ LexLess(k, o)
         IN <<first>> \o KeyOrder(keys \ {first})

\* RustfsStorage::list_oldest_from_bucket over keys as text: pages of n keys
\* until n are collected; a failed LIST ends it with what was collected
list_oldest_from_bucket(keys, n, list_ok) ==
    IF ~list_ok THEN <<>>
    ELSE LET contents == KeyOrder(keys)
             page == SubSeq(contents, 1, Min(n, Len(contents)))
         IN [i \in 1..Len(page) |->
                LET ts == parse_start_ms_from_key(page[i])
                IN [key |-> page[i],
                    ts |-> IF ts = None THEN 0 ELSE ts[1]]]

\* a recorder configured with `prefix` and `robot_id` stores the snapshot of
\* an idle period or the MP4 of an active segment
PutRecording(prefix, robot_id, start_ms, end_ms, type) ==
    LET key == IF type = "idle"
               THEN IdleJpegKeyText(prefix, robot_id, start_ms, end_ms)
               ELSE ActiveSegmentKeyText(prefix, robot_id, start_ms, end_ms)
    IN /\ listing = None
       /\ bucket_objects' = bucket_objects \cup
              {[key |-> key, robot_id |-> robot_id, start_ms |-> start_ms,
                end_ms |-> end_ms, type |-> type]}
       /\ UNCHANGED <<list_n, listing, but_kvars>>

\* the eviction loop lists the n oldest objects
ListOldest(n, list_ok) ==
    /\ listing = None
    /\ list_n' = n
    /\ listing' = Some(list_oldest_from_bucket(
                          {o.key : o \in bucket_objects}, n, list_ok))
    /\ UNCHANGED <<bucket_objects, but_kvars>>

KeysAtRest ==
    /\ bucket_objects = {}
    /\ list_n = 0
    /\ listing = None

\* --------------------------------------------------------------- API server
\* The robot whose index file the requests name
Robot == "r1"

Reply(status, body) == [status |-> status, body |-> body]

\* SegmentQuery: each field None or Some(value)
SegmentQuery(start_ms, end_ms, segment_type, limit) ==
    [start_ms |-> start_ms, end_ms |-> end_ms, segment_type |-> segment_type,
     limit |-> limit]

\* the numbered placeholders of the SQL text list_segments builds
Wheres(q) ==
    {1} \cup (IF q.start_ms # None THEN {2} ELSE {})
        \cup (IF q.end_ms # None THEN {3} ELSE {})
        \cup (IF q.segment_type # None THEN {4} ELSE {})

\* params![robot_id, start_ms.unwrap_or(MIN), end_ms.unwrap_or(MAX),
\*         segment_type.unwrap_or("")]
SegmentParams(robot_id, q) ==
    <<robot_id,
      IF q.start_ms = None THEN I64_MIN ELSE q.start_ms[1],
      IF q.end_ms = None THEN I64_MAX ELSE q.end_ms[1],
      IF q.segment_type = None THEN "" ELSE q.segment_type[1]>>

\* sqlite3_bind_parameter_count: the largest placeholder number of the text
BindParameterCount(placeholders) ==
    CHOOSE n \in placeholders : \A i \in placeholders : i <= n

\* rusqlite's Statement::bind_parameters: the values are bound by position,
\* and the call fails with InvalidParameterCount unless there are exactly as
\* many as the statement has parameters
BindParameters(placeholders, params) ==
    Len(params) = BindParameterCount(placeholders)

\* the WHERE clause over one row, each placeholder read from its binding
WhereHolds(row, placeholders, params) ==
    /\ row.robot_id = params[1]
    /\ 2 \in placeholders => row.end_ms >= params[2]
    /\ 3 \in placeholders => row.start_ms <= params[3]
    /\ 4 \in placeholders => row.type = params[4]

\* ORDER BY start_ms ASC, rows of equal start_ms in scan order
OrderByStartMs(rows) ==
    IF \A i \in 1..(Len(rows) - 1) : rows[i].start_ms <= rows[i + 1].start_ms
    THEN rows
    ELSE LET Before(i, j) ==
                 \/ rows[i].start_ms < rows[j].start_ms
                 \/ rows[i].start_ms = rows[j].start_ms /\ i < j
             Rank(i) == 1 + Cardinality({j \in 1..Len(rows) : Before(j, i)})
         IN [k \in 1..Len(rows) |->
                rows[CHOOSE i \in 1..Len(rows) : Rank(i) = k]]

\* LIMIT n: a negative n is no limit
SqlLimit(rows, n) ==
    IF n < 0 THEN rows ELSE SubSeq(rows, 1, Min(n, Len(rows)))

\* q.limit.unwrap_or(100).min(1000)
LimitClause(q) ==
    Min(IF q.limit = None THEN DefaultLimit ELSE q.limit[1], MaxLimit)

\* GET /robots/{robot_id}/segments
list_segments(table, robot_id, q) ==
    LET params == SegmentParams(robot_id, q)
        Selected(row) == WhereHolds(row, Wheres(q), params)
    IN IF ~BindParameters(Wheres(q), params)
       THEN Reply(500, <<>>)
       ELSE Reply(200, SqlLimit(OrderByStartMs(SelectSeq(table, Selected)),
                                LimitClause(q)))

\* one request is handled; the clock of the API process moves on
Handled(req, rep) ==
    /\ request' = Some(req)
    /\ reply' = Some(rep)
    /\ api_now' = api_now + 1
    /\ UNCHANGED but_avars

ListSegments(q) ==
    /\ Handled([op |-> "list_segments", robot_id |-> Robot, q |-> q],
               list_segments(seg_table, Robot, q))
    /\ UNCHANGED <<seg_table, collections, collection_clips, sqlite_sequence,
                   labelled_data>>

\* ---- collections and clips ----
\* what a handler leaves behind: its reply and the tables and bucket after it
Outcome(rep, colls, clips, seq, bucket_after) ==
    [reply |-> rep, collections |-> colls, collection_clips |-> clips,
     sqlite_sequence |-> seq, labelled_data |-> bucket_after]

\* a handler that wrote nothing
Refused(status) ==
    Outcome(Reply(status, None), collections, collection_clips,
            sqlite_sequence, labelled_data)

\* POST /robots/{robot_id}/collections: the insert fails on the unique index
\* (robot_id, name)
create_collection(name) ==
    IF \E c \in collections : c.robot_id = Robot /\ c.name = name
    THEN Refused(409)
    ELSE LET id == sqlite_sequence.collections + 1
         IN Outcome(Reply(201, [id |-> id]),
                    collections \cup
                        {[id |-> id, robot_id |-> Robot, name |-> name,
                          created_at |-> api_now, updated_at |-> api_now]},
                    collection_clips,
                    [sqlite_sequence EXCEPT !.collections = id],
                    labelled_data)

\* DELETE /robots/{robot_id}/collections/{id}: the clips go with the
\* collection (ON DELETE CASCADE, foreign_keys = ON)
delete_collection(id) ==
    IF ~\E c \in collections : c.id = id /\ c.robot_id = Robot
    THEN Refused(404)
    ELSE Outcome(Reply(204, None),
                 {c \in collections : c.id # id},
                 {k \in collection_clips : k.collection_id # id},
                 sqlite_sequence, labelled_data)

\* DELETE /robots/{robot_id}/collections/{collection_id}/clips/{clip_id}
delete_clip(clip_id) ==
    IF ~\E k \in collection_clips : k.id = clip_id /\ k.robot_id = Robot
    THEN Refused(404)
    ELSE Outcome(Reply(204, None), collections,
                 {k \in collection_clips : k.id # clip_id},
                 sqlite_sequence, labelled_data)

\* CreateClip, the body of the request
CreateClipBody(clip_start_ms, clip_end_ms, segment_ids) ==
    [clip_start_ms |-> clip_start_ms, clip_end_ms |-> clip_end_ms,
     segment_ids |-> segment_ids]

\* SELECT name FROM collections WHERE id = ?1 AND robot_id = ?2
CollectionName(collection_id) ==
    LET found == {c \in collections :
                     c.id = collection_id /\ c.robot_id = Robot}
    IN IF found = {} THEN None ELSE Some((CHOOSE c \in found : TRUE).name)

\* the rows found for the ids of the request, in the order of the ids
RECURSIVE SegmentInfos(_)
SegmentInfos(seg_ids) ==
    IF seg_ids = <<>> THEN <<>>
    ELSE LET Named(row) == row.id = Head(seg_ids) /\ row.robot_id = Robot
             found == SelectSeq(seg_table, Named)
         IN (IF found = <<>> THEN <<>> ELSE <<found[1]>>)
            \o SegmentInfos(Tail(seg_ids))

\* collection_name.replace(' ', "_").replace('/', "-")
SafeName(name) ==
    [i \in 1..Len(name) |->
        IF name[i] = " " THEN "_" ELSE IF name[i] = "/" THEN "-" ELSE name[i]]

\* "{robot_id}/{safe_name}/{clip_start_ms}_{clip_end_ms}.json"
ManifestKey(robot_id, name, body) ==
    [robot_id |-> robot_id, safe_name |-> SafeName(name),
     clip_start_ms |-> body.clip_start_ms, clip_end_ms |-> body.clip_end_ms]

Manifest(collection_id, name, body, infos) ==
    [robot_id |-> Robot, collection_id |-> collection_id,
     collection_name |-> name, clip_start_ms |-> body.clip_start_ms,
     clip_end_ms |-> body.clip_end_ms,
     segments |-> [i \in 1..Len(infos) |->
                      [segment_id |-> infos[i].id,
                       start_ms |-> infos[i].start_ms,
                       end_ms |-> infos[i].end_ms, type |-> infos[i].type]]]

\* put_object into the labelled-data bucket
PutManifest(objects, key, manifest) ==
    [k \in DOMAIN objects \cup {key} |->
        IF k = key THEN manifest ELSE objects[k]]

MutNoValidSegments(infos) == FALSE

\* segment_infos.is_empty()
NoValidSegments(infos) == infos = <<>>

MutContinuesAfterPut(put_ok) == put_ok

\* if let Err(e) = put_object()...send().await { warn!(..) }: the handler
\* goes on to the insert either way
ContinuesAfterPut(put_ok) == TRUE

\* POST /robots/{robot_id}/collections/{collection_id}/clips
create_clip(collection_id, body, put_ok) ==
    LET name == CollectionName(collection_id)
        infos == SegmentInfos(body.segment_ids)
    IN IF name = None THEN Refused(404)
       ELSE IF NoValidSegments(infos) THEN Refused(400)
       ELSE LET key == ManifestKey(Robot, name[1], body)
                written ==
                    IF put_ok
                    THEN PutManifest(labelled_data, key,
                                     Manifest(collection_id, name[1], body,
                                              infos))
                    ELSE labelled_data
                id == sqlite_sequence.collection_clips + 1
            IN IF ~ContinuesAfterPut(put_ok)
               THEN Outcome(Reply(500, None), collections, collection_clips,
                            sqlite_sequence, written)
               ELSE IF \E k \in collection_clips :
                          /\ k.collection_id = collection_id
                          /\ k.clip_start_ms = body.clip_start_ms
                          /\ k.clip_end_ms = body.clip_end_ms
               THEN \* UNIQUE(collection_id, clip_start_ms, clip_end_ms)
                    Outcome(Reply(500, None), collections, collection_clips,
                            sqlite_sequence, written)
               ELSE Outcome(
                      Reply(201, [id |-> id, collection_id |-> collection_id,
                                  manifest_s3_key |-> key,
                                  segment_ids |-> body.segment_ids]),
                      {IF c.id = collection_id
                       THEN [c EXCEPT !.updated_at = api_now] ELSE c :
                          c \in collections},
                      collection_clips \cup
                          {[id |-> id, collection_id |-> collection_id,
                            robot_id |-> Robot,
                            clip_start_ms |-> body.clip_start_ms,
                            clip_end_ms |-> body.clip_end_ms,
                            segment_ids |-> body.segment_ids,
                            manifest_s3_key |-> key,
                            created_at |-> api_now]},
                      [sqlite_sequence EXCEPT !.collection_clips = id],
                      written)

\* a request that may write: the handler runs to its end
Write(req, out) ==
    /\ Handled(req, out.reply)
    /\ collections' = out.collections
    /\ collection_clips' = out.collection_clips
    /\ sqlite_sequence' = out.sqlite_sequence
    /\ labelled_data' = out.labelled_data
    /\ UNCHANGED seg_table

CreateCollection(name) ==
    Write([op |-> "create_collection", name |-> name],
          create_collection(name))

DeleteCollection(id) ==
    Write([op |-> "delete_collection", id |-> id], delete_collection(id))

DeleteClip(clip_id) ==
    Write([op |-> "delete_clip", clip_id |-> clip_id], delete_clip(clip_id))

\* put_ok: what the labelled-data bucket answers to the PUT, if it is asked
CreateClip(collection_id, body, put_ok) ==
    Write([op |-> "create_clip", collection_id |-> collection_id,
           body |-> body, put_ok |-> put_ok],
          create_clip(collection_id, body, put_ok))

\* the index as the consumer created it, holding the rows `table`
InitApi(table) ==
    /\ seg_table = table
    /\ collections = {}
    /\ collection_clips = {}
    /\ sqlite_sequence = [collections |-> 0, collection_clips |-> 0]
    /\ labelled_data = <<>>
    /\ api_now = 1
    /\ request = None
    /\ reply = None

ApiAtRest == InitApi(<<>>)

\* ------------------------------------------------------- MPEG-TS aligner
\* ts_buf.iter().position(|&b| b == TS_SYNC_BYTE), counted from 0
SyncPos(buf) ==
    LET at == {i \in 1..Len(buf) : buf[i] = TS_SYNC_BYTE}
    IN IF at = {} THEN None
       ELSE Some((CHOOSE i \in at : \A j \in at : i <= j) - 1)

\* ts_buf.drain(..n)
Drain(buf, n) == SubSeq(buf, n + 1, Len(buf))

Aligner(buf, offset, packets) ==
    [buf |-> buf, offset |-> offset, packets |-> packets]

\* while ts_buf.len() >= TS_PACKET_SIZE { .. }
RECURSIVE AlignLoop(_)
AlignLoop(a) ==
    IF Len(a.buf) < TS_PACKET_SIZE THEN a
    ELSE LET sync_pos == SyncPos(a.buf)
         IN IF sync_pos = None
            THEN Aligner(<<>>, a.offset + Len(a.buf), a.packets)
            ELSE LET buf == Drain(a.buf, sync_pos[1])
                     offset == a.offset + sync_pos[1]
                 IN IF Len(buf) < TS_PACKET_SIZE
                    THEN Aligner(buf, offset, a.packets)
                    ELSE IF /\ Len(buf) >= TS_PACKET_SIZE * 2
                            /\ buf[TS_PACKET_SIZE + 1] # TS_SYNC_BYTE
                    THEN AlignLoop(Aligner(Drain(buf, 1), offset + 1,
                                           a.packets))
                    ELSE AlignLoop(
                           Aligner(Drain(buf, TS_PACKET_SIZE),
                                   offset + TS_PACKET_SIZE,
                                   Append(a.packets,
                                          [at |-> offset,
                                           bytes |-> SubSeq(buf, 1,
                                                       TS_PACKET_SIZE)])))

\* ts_buf.extend_from_slice(&read_buf[..n]), then the loop
OnRead(a, bytes) == AlignLoop(Aligner(a.buf \o bytes, a.offset, a.packets))

\* ---------------------------------------------------------- PES assembler
\* PesAssembler; video_pid is None or Some(pid)
PesAssembler(current_pes, video_pid, collecting) ==
    [current_pes |-> current_pes, video_pid |-> video_pid,
     collecting |-> collecting]

\* the fields of the 4-byte TS header; packet[k] of the code is packet[k + 1]
TsPid(packet) == (packet[2] % 32) * 256 + packet[3]
TsPusi(packet) == (packet[2] \div 64) % 2 = 1
TsAfc(packet) == (packet[4] \div 16) % 4
HasPayload(afc) == afc % 2 = 1

\* payload_offset(), counted from 0
payload_offset(packet, afc) ==
    IF (afc \div 2) % 2 = 1 /\ Len(packet) > 4
    THEN 5 + packet[5]
    ELSE 4

\* &packet[offset..]
From(packet, offset) == SubSeq(packet, offset + 1, Len(packet))

MutIsVideoStreamId(stream_id) == stream_id >= 192 /\ stream_id <= 239

\* (0xE0..=0xEF).contains(&stream_id)
IsVideoStreamId(stream_id) == stream_id >= 224 /\ stream_id <= 239

\* p[0] == 0x00 && p[1] == 0x00 && p[2] == 0x01
HasStartCode(p) == p[1] = 0 /\ p[2] = 0 /\ p[3] = 1

\* the auto-detection block: the video_pid after it
DetectVideoPid(pa, packet) ==
    LET pid == TsPid(packet)
        afc == TsAfc(packet)
        offset == payload_offset(packet, afc)
    IN IF /\ pa.video_pid = None
          /\ TsPusi(packet)
          /\ HasPayload(afc)
          /\ offset + 4 <= TS_PACKET_SIZE
          /\ Len(From(packet, offset)) >= 4
          /\ HasStartCode(From(packet, offset))
          /\ IsVideoStreamId(From(packet, offset)[4])
       THEN Some(pid)
       ELSE pa.video_pid

\* the if pusi { .. } else if self.collecting { .. } of push_ts_packet
Reassemble(pa, packet, offset) ==
    IF TsPusi(packet)
    THEN LET emits == pa.collecting /\ pa.current_pes # <<>>
             kept == IF emits THEN <<>> ELSE pa.current_pes
             payload == From(packet, offset)
         IN [pa |-> IF Len(payload) >= 9 /\ HasStartCode(payload)
                    THEN LET es_start == 9 + payload[9]
                         IN PesAssembler(
                              IF es_start < Len(payload)
                              THEN kept \o From(payload, es_start)
                              ELSE kept,
                              pa.video_pid, TRUE)
                    ELSE PesAssembler(kept, pa.video_pid, pa.collecting),
             completed_au |-> IF emits THEN Some(pa.current_pes) ELSE None]
    ELSE [pa |-> IF pa.collecting
                 THEN PesAssembler(pa.current_pes \o From(packet, offset),
                                   pa.video_pid, pa.collecting)
                 ELSE pa,
          completed_au |-> None]

\* PesAssembler::push_ts_packet: the assembler after the call and what the
\* call returned
push_ts_packet(pa, packet) ==
    IF Len(packet) < TS_PACKET_SIZE \/ packet[1] # TS_SYNC_BYTE
    THEN [pa |-> pa, completed_au |-> None]
    ELSE LET pid == TsPid(packet)
             afc == TsAfc(packet)
         IN IF pid = 0 \/ pid = 8191
            THEN [pa |-> pa, completed_au |-> None]
            ELSE LET detected == PesAssembler(pa.current_pes,
                                              DetectVideoPid(pa, packet),
                                              pa.collecting)
                     offset == payload_offset(packet, afc)
                 IN IF detected.video_pid # Some(pid) \/ ~HasPayload(afc)
                    THEN [pa |-> detected, completed_au |-> None]
                    ELSE IF offset >= TS_PACKET_SIZE
                    THEN [pa |-> detected, completed_au |-> None]
                    ELSE Reassemble(detected, packet, offset)

\* the packets the while loop drained during one read, pushed in order;
\* k packets were pushed before them
RECURSIVE PushAll(_, _, _, _)
PushAll(pa, units, packets, k) ==
    IF packets = <<>> THEN [pa |-> pa, units |-> units]
    ELSE LET r == push_ts_packet(pa, Head(packets).bytes)
         IN PushAll(r.pa,
                    IF r.completed_au = None THEN units
                    ELSE Append(units, [bytes |-> r.completed_au[1],
                                        on |-> k + 1]),
                    Tail(packets), k + 1)

\* stream.read(&mut read_buf) returns the next n bytes of the connection
Read(n) ==
    /\ n >= 1
    /\ n <= Len(tcp_stream)
    /\ LET a == OnRead(Aligner(ts_buf, ts_offset, ts_packets),
                       SubSeq(tcp_stream, 1, n))
           pushed == PushAll(pes_assembler, access_units,
                             SubSeq(a.packets, Len(ts_packets) + 1,
                                    Len(a.packets)),
                             Len(ts_packets))
       IN /\ ts_buf' = a.buf
          /\ ts_offset' = a.offset
          /\ ts_packets' = a.packets
          /\ pes_assembler' = pushed.pa
          /\ access_units' = pushed.units
    /\ tcp_received' = tcp_received \o SubSeq(tcp_stream, 1, n)
    /\ tcp_stream' = SubSeq(tcp_stream, n + 1, Len(tcp_stream))
    /\ UNCHANGED but_tvars

\* consume_h264_stream right after the connection is made
InitAligner(stream) ==
    /\ tcp_stream = stream
    /\ tcp_received = <<>>
    /\ ts_buf = <<>>
    /\ ts_offset = 0
    /\ ts_packets = <<>>
    /\ pes_assembler = PesAssembler(<<>>, None, FALSE)
    /\ access_units = <<>>

AlignerAtRest == InitAligner(<<>>)

OthersAtRest ==
    /\ LoopAtRest
    /\ WireAtRest
    /\ KeysAtRest
    /\ ApiAtRest
    /\ AlignerAtRest

\* ------------------------------------------------------------ configuration
\* threshold 3 bytes, target 2 bytes, fallback threshold 4 bytes (so fallback
\* target 3), batches of 2, health check every 2 time units, ticks of 1;
\* fallback after 2 failures (before the back-off) or after 4 (after it)
Configs ==
    {[threshold_bytes |-> 3, target_bytes |-> 2,
      fallback_threshold_bytes |-> 4, batch_size |-> 2,
      fallback_after_failures |-> n, fallback_retry_secs |-> 2,
      check_interval_secs |-> 1] : n \in {2, 4}}

InitEviction(c, b) ==
    /\ cfg = c
    /\ bucket = b
    /\ index = [t \in {} |-> 0]
    /\ archive = {}
    /\ archive_up \in BOOLEAN
    /\ next_key = Cardinality(DOMAIN b) + 1
    /\ put_pending = None
    /\ baseline_bytes = 0
    /\ baseline_objects = 0
    /\ consecutive_failures = 0
    /\ fallback_mode = FALSE
    /\ fallback_entered_at = None
    /\ s3_upload_successes = 0
    /\ s3_upload_failures = 0
    /\ objects_deleted_without_backup = 0
    /\ pc = "start"
    /\ entries = <<>>
    /\ pos = 0
    /\ evicted = 0
    /\ in_session_index = FALSE
    /\ batch_result = "none"
    /\ total_bytes = 0

\* the recorder as constructed, fed no frame
RecorderAtRest ==
    InitRecorder(CHOOSE rc \in RecConfigs : rc.source = "mjpeg")

Init ==
    /\ \E c \in Configs : \E n \in 0..MaxBaseline :
          \E b \in [1..n -> 1..MaxSize] : InitEviction(c, b)
    /\ RecorderAtRest
    /\ ParserAtRest
    /\ OthersAtRest

Next ==
    \/ Startup
    \/ \E size \in 1..MaxSize : Put(size)
    \/ ArchiveFlip
    \/ \E dt \in {cfg.check_interval_secs, cfg.fallback_retry_secs} : Sleep(dt)
    \/ BackoffDone
    \/ \E list_ok \in BOOLEAN : Check(list_ok)
    \/ \E get_ok \in BOOLEAN : EvictUpload(get_ok)
    \/ \E del_ok \in BOOLEAN : EvictDelete(del_ok)
    \/ \E del_ok \in BOOLEAN : FallbackDelete(del_ok)

Spec == Init /\ [][Next]_vars

\* The eviction task is a spawned tokio task: it is scheduled whenever it can
\* take a step.
EvictionStep ==
    \/ Startup
    \/ \E dt \in {cfg.check_interval_secs, cfg.fallback_retry_secs} : Sleep(dt)
    \/ BackoffDone
    \/ \E list_ok \in BOOLEAN : Check(list_ok)
    \/ \E get_ok \in BOOLEAN : EvictUpload(get_ok)
    \/ \E del_ok \in BOOLEAN : EvictDelete(del_ok)
    \/ \E del_ok \in BOOLEAN : FallbackDelete(del_ok)

FairSpec == Init /\ [][Next]_vars /\ WF_vars(EvictionStep)

\* ---------------------------------------------- scenario: crossing threshold
\* threshold_gb = 1.0, target_gb = 0.8, no separate fallback threshold, the
\* default batch size and check interval
ScenarioCfg ==
    [threshold_bytes |-> GbToBytes(10), target_bytes |-> GbToBytes(8),
     fallback_threshold_bytes |-> 0, batch_size |-> DefaultBatchSize,
     fallback_after_failures |-> 3, fallback_retry_secs |-> 300,
     check_interval_secs |-> 30]

\* 512 KiB
ObjectBytes == 512 * 1024

\* 2048 objects of 512 KiB are exactly 1 GiB
ThresholdObjects == 2 * 1024

\* stores just below, at and above the threshold
StoreSizes ==
    {ThresholdObjects - 1, ThresholdObjects, ThresholdObjects + 1,
     ThresholdObjects + DefaultBatchSize + 2}

\* the store was filled before the consumer started; the archive is reachable
InitScenario ==
    /\ \E n \in StoreSizes :
          InitEviction(ScenarioCfg, [k \in 1..n |-> ObjectBytes])
    /\ archive_up
    /\ RecorderAtRest
    /\ ParserAtRest
    /\ OthersAtRest

\* archive and local store answer every request
NextScenario ==
    \/ Startup
    \/ Sleep(cfg.check_interval_secs)
    \/ Check(TRUE)
    \/ EvictUpload(TRUE)
    \/ EvictDelete(TRUE)

SpecScenario == InitScenario /\ [][NextScenario]_vars

\* ------------------------------------------------- the recorder on its own
InitRecording ==
    /\ InitEviction(ScenarioCfg, <<>>)
    /\ archive_up
    /\ \E rc \in RecConfigs : InitRecorder(rc)
    /\ ParserAtRest
    /\ OthersAtRest

NextRecording ==
    /\ Len(topic) < Horizon
    /\ \E frame \in Frames : \E dt \in ClockSteps : \E o \in Outcomes :
          ProcessFrame(frame, dt, o)

SpecRecording == InitRecording /\ [][NextRecording]_vars

\* ------------------------------------- scenario: JPEG idle, active, idle
\* a uniform grey frame: no pixel is above the mean
GreyImage == <<0, 0, 0, 0>>

\* ten frames whose hashes differ from the grey one and from each other
DifferentImages ==
    << <<4, 0, 0, 0>>, <<0, 4, 0, 0>>, <<0, 0, 4, 0>>, <<0, 0, 0, 4>>,
       <<4, 4, 0, 0>>, <<4, 0, 4, 0>>, <<4, 0, 0, 4>>, <<0, 4, 4, 0>>,
       <<0, 4, 0, 4>>, <<0, 0, 4, 4>> >>

\* 10 greys at 1000..1900, 10 different frames at 2000..2900, 5 greys at
\* 3000..3400
JpegScenarioTopic ==
    [i \in 1..25 |->
        [kind |-> "Jpeg",
         data |-> IF i \in 11..20 THEN DifferentImages[i - 10] ELSE GreyImage,
         nal_type |-> 0,
         captured_at_ms |-> 1000 + 100 * (i - 1)]]

\* default segment_duration_secs and active_to_idle_consecutive_frames; hashes
\* of four bits, similar only when equal
JpegScenarioCfg ==
    [source |-> "mjpeg", segment_duration_secs |-> 60,
     active_to_idle_consecutive_frames |-> 5, phash_threshold |-> 0,
     spike_ratio |-> 4, db |-> TRUE]

\* seconds between two frames: the deadline of a segment is never reached
ScenarioClockSteps == {0, 1, 2}

InitJpegScenario ==
    /\ InitEviction(ScenarioCfg, <<>>)
    /\ archive_up
    /\ InitRecorder(JpegScenarioCfg)
    /\ ParserAtRest
    /\ OthersAtRest

\* every call succeeds
NextJpegScenario ==
    /\ Len(topic) < Len(JpegScenarioTopic)
    /\ \E dt \in ScenarioClockSteps :
          ProcessFrame(JpegScenarioTopic[Len(topic) + 1], dt, AllOk)

SpecJpegScenario == InitJpegScenario /\ [][NextJpegScenario]_vars

\* --------------------------------- the recorder under any arrival pattern
\* frames of one run, and the longest pause of the stream
MaxArrivals == 3
MaxGap == 3

\* captured_at_ms is the producer's wall clock (Utc::now): nothing ties it to
\* the timestamp of the frame before or to the consumer's monotonic clock. It
\* can step back, stand still, or jump after a pause of the stream.
ArrivalTs ==
    IF topic = <<>> THEN {1}
    ELSE LET last == topic[Len(topic)].captured_at_ms
         IN {last - 1, last, last + MaxGap}

ArrivalFrames ==
    IF rcfg.source = "mjpeg"
    THEN {[kind |-> "Jpeg", data |-> d, nal_type |-> 0, captured_at_ms |-> ts] :
             d \in {<<0, 2>>, <<2, 0>>}, ts \in ArrivalTs}
    ELSE {[kind |-> "H264", data |-> Bytes(1), nal_type |-> n,
           captured_at_ms |-> ts] :
             n \in {PFrameNalType, IdrNalType}, ts \in ArrivalTs}

\* time passes between frames; before a segment runs no deadline is set
ArrivalClockSteps == IF state.kind = "Active" THEN {0, 1} ELSE {0}

ArrivalOutcomes ==
    {o \in [start : BOOLEAN, push : BOOLEAN, finish : BOOLEAN, put : BOOLEAN,
            insert : BOOLEAN] : Cardinality({k \in DOMAIN o : ~o[k]}) <= 1}

NextArrival ==
    /\ Len(topic) < MaxArrivals
    /\ \E frame \in ArrivalFrames : \E dt \in ArrivalClockSteps :
          \E o \in ArrivalOutcomes : ProcessFrame(frame, dt, o)

SpecArrival == InitRecording /\ [][NextArrival]_vars

\* ---- bodies: [junk] (boundary headers blank-line jpeg [CRLF])* [boundary]
CRLF == <<"\r", "\n">>

\* bytes before the first boundary: none, a torn boundary, a long run
Junks == {<<>>, <<"-", "-", "f", "r">>,
          <<"x", "y", "x", "y", "x", "y", "x", "y", "x", "y", "-">>}

Headers == {<<"h">>, <<"h", "\r", "\n", "h">>}

\* payloads: empty, short, holding a CRLF, ending like a boundary begins,
\* ending in a CR, longer than the boundary
Jpegs == {<<>>, <<"x">>, <<"x", "\r", "\n", "y">>, <<"x", "-", "-", "f">>,
          <<"y", "\r">>,
          <<"x", "y", "x", "y", "x", "y", "x", "y", "x", "y", "x", "y">>}

Part(h, jpeg, tail) == BOUNDARY \o h \o HEADER_END \o jpeg \o tail

\* the body ends with a boundary, in the middle of one, or in a payload
Endings == {BOUNDARY, SubSeq(BOUNDARY, 1, 5), <<>>}

Bodies ==
    {j \o Part(h, jpeg, tail) \o Part(<<"h">>, <<"y", "x">>, CRLF) \o e :
        j \in Junks, h \in Headers, jpeg \in Jpegs, tail \in {<<>>, CRLF},
        e \in Endings}

\* bodies with no boundary in them
Noise ==
    {<<"x">>,
     SubSeq(BOUNDARY, 1, 8) \o <<"x">> \o SubSeq(BOUNDARY, 1, 8),
     <<"x", "y">> \o HEADER_END \o SubSeq(BOUNDARY, 2, 9) \o CRLF
        \o <<"-", "-", "f", "r", "a", "m", "e", "\n", "\r">>}

InitMjpeg ==
    /\ InitEviction(ScenarioCfg, <<>>)
    /\ archive_up
    /\ RecorderAtRest
    /\ \E body \in Bodies \cup Noise : InitParser(body)
    /\ OthersAtRest

NextMjpeg == \E n \in 1..Len(byte_stream) : Chunk(n)

SpecMjpeg == InitMjpeg /\ [][NextMjpeg]_vars

\* ---------------------------------------------- reconnect loops, any outcomes
\* connections followed per run
MaxConnections == 7

\* the consumer and the parser before anything has happened
CoreAtRest ==
    /\ InitEviction(ScenarioCfg, <<>>)
    /\ archive_up
    /\ RecorderAtRest
    /\ ParserAtRest

InitReconnect ==
    /\ CoreAtRest
    /\ \E which \in {"mjpeg", "h264"} : InitLoop(which)
    /\ WireAtRest
    /\ KeysAtRest
    /\ ApiAtRest
    /\ AlignerAtRest

NextReconnect ==
    /\ Len(slept) < MaxConnections
    /\ \E result \in ConnectionResults :
          \/ run_mjpeg_producer(result)
          \/ run_h264_producer(result)

SpecReconnect == InitReconnect /\ [][NextReconnect]_vars

\* ------------------------------------------------------ frames on the wire
\* captured_at_ms: 0, 1708300000000, -1, i64::MIN, 2^57, the largest value
\* with first byte 2, 2^49 (second byte 2), 2^56
WireTimestamps ==
    {<<0, 0, 0, 0>>, <<0, 397, 48797, 23296>>,
     <<65535, 65535, 65535, 65535>>, <<32768, 0, 0, 0>>, <<512, 0, 0, 0>>,
     <<767, 65535, 65535, 65535>>, <<2, 0, 0, 0>>, <<256, 0, 0, 0>>}

\* seq: 0, 42, u64::MAX, 2^57
WireSeqs ==
    {<<0, 0, 0, 0>>, <<0, 0, 0, 42>>, <<65535, 65535, 65535, 65535>>,
     <<512, 0, 0, 0>>}

WirePayloads ==
    {<<>>, <<2>>, <<255, 216, 255, 224>>, <<0, 0, 0, 0, 0, 1, 101>>,
     <<0, 0, 0, 1, 101, 170, 187>>}

WireNalTypes == {0, 1, 2, 5, 255}

WireFrames ==
    {NewJpeg(p, t, s) : p \in WirePayloads, t \in WireTimestamps,
                        s \in WireSeqs}
    \cup {NewH264(p, n, t, s) : p \in WirePayloads, n \in WireNalTypes,
                                t \in WireTimestamps, s \in WireSeqs}

InitWireFormat ==
    /\ CoreAtRest
    /\ LoopAtRest
    /\ \E f \in WireFrames : InitWire(f)
    /\ KeysAtRest
    /\ ApiAtRest
    /\ AlignerAtRest

NextWireFormat == Serialize \/ Deserialize

SpecWireFormat == InitWireFormat /\ [][NextWireFormat]_vars

\* -------------------------------------------------- keys in a shared bucket
\* objects in the bucket
MaxObjects == 3

KeyPrefix == <<"f", "/">>

\* "r1" and "r10"
RobotIds == {<<"r", "1">>, <<"r", "1", "0">>}

\* around the change of date, and around the date that takes a second digit
KeyTimes == {9, 10, 99, 100, 101}

InitKeys ==
    /\ CoreAtRest
    /\ LoopAtRest
    /\ WireAtRest
    /\ KeysAtRest
    /\ ApiAtRest
    /\ AlignerAtRest

NextKeys ==
    \/ /\ Cardinality(bucket_objects) < MaxObjects
       /\ \E r \in RobotIds : \E s \in KeyTimes :
             \E e \in {t \in KeyTimes : t >= s /\ t <= s + DayMs} :
                \E type \in {"idle", "active"} :
                   PutRecording(KeyPrefix, r, s, e, type)
    \/ \E n \in 1..MaxObjects : \E list_ok \in BOOLEAN :
          ListOldest(n, list_ok)

SpecKeys == InitKeys /\ [][NextKeys]_vars

\* ------------------------------------------------------- segment listings
\* rows of a table built row by row
MaxRows == 2

SegmentRow(id, type, start_ms, end_ms) ==
    [id |-> id, robot_id |-> Robot, type |-> type, start_ms |-> start_ms,
     end_ms |-> end_ms]

RowShapes ==
    {[type |-> t, span |-> s] :
        t \in {"idle", "active"},
        s \in {<<1, 1>>, <<1, 3>>, <<2, 2>>, <<3, 3>>}}

\* n rows of one-unit active segments, one after the other
LongTable(n) == [i \in 1..n |-> SegmentRow(i, "active", i, i)]

\* every table of up to MaxRows rows, and tables just over the default and
\* the greatest limit
SegmentTables ==
    {[i \in 1..n |-> SegmentRow(i, f[i].type, f[i].span[1], f[i].span[2])] :
        n \in 0..0, f \in {<<>>}}
    \cup UNION {{[i \in 1..n |->
                     SegmentRow(i, f[i].type, f[i].span[1], f[i].span[2])] :
                   f \in [1..n -> RowShapes]} : n \in 1..MaxRows}
    \cup {LongTable(DefaultLimit + 1), LongTable(MaxLimit + 1)}

SegmentQueries ==
    {SegmentQuery(s, e, t, l) :
        s \in {None, Some(2)}, e \in {None, Some(2)},
        t \in {None, Some("idle"), Some("active")},
        l \in {None, Some(-1), Some(0), Some(1), Some(MaxLimit),
               Some(MaxLimit + 1)}}

InitSegments ==
    /\ CoreAtRest
    /\ LoopAtRest
    /\ WireAtRest
    /\ KeysAtRest
    /\ \E table \in SegmentTables : InitApi(table)
    /\ AlignerAtRest

NextSegments ==
    /\ request = None
    /\ \E q \in SegmentQueries : ListSegments(q)

SpecSegments == InitSegments /\ [][NextSegments]_vars

\* ------------------------------------------------------ clips of collections
\* requests per run
MaxRequests == 4

\* segments 10 and 12 exist, 11 does not
ClipSegments ==
    <<SegmentRow(10, "active", 1, 2), SegmentRow(12, "idle", 3, 3)>>

ClipBodies ==
    {CreateClipBody(span[1], span[2], ids) :
        span \in {<<1, 2>>, <<1, 1>>, <<2, 1>>},
        ids \in {<<>>, <<10>>, <<11>>, <<10, 11>>}}

CollectionNames == {<<"a", " ", "b">>, <<"c">>}

InitClips ==
    /\ CoreAtRest
    /\ LoopAtRest
    /\ WireAtRest
    /\ KeysAtRest
    /\ InitApi(ClipSegments)
    /\ AlignerAtRest

NextClips ==
    /\ api_now <= MaxRequests
    /\ \/ \E name \in CollectionNames : CreateCollection(name)
       \/ \E id \in 1..2 : DeleteCollection(id)
       \/ \E clip_id \in 1..2 : DeleteClip(clip_id)
       \/ \E collection_id \in 1..2 : \E body \in ClipBodies :
             \E put_ok \in BOOLEAN : CreateClip(collection_id, body, put_ok)

SpecClips == InitClips /\ [][NextClips]_vars

\* ------------------------------------------------------ transport streams
\* pieces per stream
MaxPieces == 3

\* a whole packet (sync byte and 187 bytes of payload), a byte that is not
\* the sync byte, and a sync byte by itself
TsPieces ==
    {[i \in 1..TS_PACKET_SIZE |-> IF i = 1 THEN TS_SYNC_BYTE ELSE 0],
     <<1>>, <<TS_SYNC_BYTE>>}

RECURSIVE Joined(_)
Joined(pieces) ==
    IF pieces = <<>> THEN <<>> ELSE Head(pieces) \o Joined(Tail(pieces))

TsStreams ==
    UNION {{Joined(f) : f \in [1..n -> TsPieces]} : n \in 1..MaxPieces}

\* read sizes: half a packet, a packet, a packet and a byte, two packets,
\* all that is left
ReadSizes ==
    {TS_PACKET_SIZE \div 2, TS_PACKET_SIZE, TS_PACKET_SIZE + 1,
     TS_PACKET_SIZE * 2, Len(tcp_stream)}

InitTs ==
    /\ CoreAtRest
    /\ LoopAtRest
    /\ WireAtRest
    /\ KeysAtRest
    /\ ApiAtRest
    /\ \E stream \in TsStreams : InitAligner(stream)

NextTransport == \E n \in ReadSizes : Read(n)

SpecTs == InitTs /\ [][NextTransport]_vars

\* --------------------------------------------------- elementary streams
\* packets per connection
MaxPackets == 3

\* a 188-byte TS packet: header, adaptation field of the given length when
\* afc says there is one, the payload, and filler up to the packet size
TsPacket(pid, pusi, afc, adaptation_length, payload, fill) ==
    LET header == <<TS_SYNC_BYTE,
                    (IF pusi THEN 64 ELSE 0) + (pid \div 256),
                    pid % 256,
                    afc * 16>>
        adaptation == IF afc \in {2, 3}
                      THEN <<adaptation_length>>
                           \o [i \in 1..adaptation_length |-> 255]
                      ELSE <<>>
        front == header \o adaptation \o payload
    IN [i \in 1..TS_PACKET_SIZE |->
           IF i <= Len(front) THEN front[i] ELSE fill]

\* start code, stream id, PES length, flags, header_data_length, header data
PesHeader(prefix, stream_id, header_data_length) ==
    prefix \o <<stream_id, 0, 0, 128, 0, header_data_length>>
           \o [i \in 1..header_data_length |-> 254]

\* a video PES start and its continuation on PID 0x100; a PES start of that
\* PID whose prefix is 00 00 02; an audio PES start and a continuation on PID
\* 0x101; a second video PES start on PID 0x102; a PAT and a null packet
\* carrying what looks like a video PES start; a video PES start behind an
\* adaptation field, with header data; a packet that is all adaptation
\* field; a packet with room for three bytes of payload
PesPackets ==
    {TsPacket(256, TRUE, 1, 0, PesHeader(<<0, 0, 1>>, 224, 0), 10),
     TsPacket(256, FALSE, 1, 0, <<>>, 11),
     TsPacket(256, TRUE, 1, 0, PesHeader(<<0, 0, 2>>, 224, 0), 12),
     TsPacket(257, TRUE, 1, 0, PesHeader(<<0, 0, 1>>, 192, 0), 13),
     TsPacket(257, FALSE, 1, 0, <<>>, 17),
     TsPacket(258, TRUE, 1, 0, PesHeader(<<0, 0, 1>>, 225, 0), 14),
     TsPacket(0, TRUE, 1, 0, PesHeader(<<0, 0, 1>>, 224, 0), 15),
     TsPacket(8191, TRUE, 1, 0, PesHeader(<<0, 0, 1>>, 224, 0), 19),
     TsPacket(256, TRUE, 3, 7, PesHeader(<<0, 0, 1>>, 224, 5), 16),
     TsPacket(256, TRUE, 2, 183, <<>>, 0),
     TsPacket(258, TRUE, 3, 180, <<0, 0, 1>>, 18)}

PesStreams ==
    UNION {{Joined(f) : f \in [1..n -> PesPackets]} : n \in 1..MaxPackets}

InitPes ==
    /\ CoreAtRest
    /\ LoopAtRest
    /\ WireAtRest
    /\ KeysAtRest
    /\ ApiAtRest
    /\ \E stream \in PesStreams : InitAligner(stream)

\* reads of one packet and of two
NextPes == \E n \in {TS_PACKET_SIZE, TS_PACKET_SIZE * 2} : Read(n)

SpecPes == InitPes /\ [][NextPes]_vars

\* ------------------------------------------------- the frame-size filter
\* calls of is_active after the warmup
MaxCalls == 3

\* (frame_size, nal_type): during the warmup P-frames of one size and IDR
\* frames of two; afterwards P-frames at, below and above spike_ratio times
\* that size, and an IDR frame
FilterFrames ==
    IF frame_size_filter.frames_seen < WarmupFrames
    THEN {<<1, PFrameNalType>>, <<1, IdrNalType>>, <<5, IdrNalType>>}
    ELSE {<<1, PFrameNalType>>, <<4, PFrameNalType>>, <<5, PFrameNalType>>,
          <<5, IdrNalType>>}

InitFilter ==
    /\ InitEviction(ScenarioCfg, <<>>)
    /\ archive_up
    /\ InitRecorder(CHOOSE rc \in RecConfigs : rc.source = "h264")
    /\ ParserAtRest
    /\ OthersAtRest

NextFilter ==
    /\ frame_size_filter.frames_seen < WarmupFrames + MaxCalls
    /\ \E u \in FilterFrames : IsActive(u[1], u[2])

SpecFilter == InitFilter /\ [][NextFilter]_vars

\* ------------------------------------- back-off and fallback, side by side
\* fallback_after_failures at the back-off's 3 failures and above it
BackoffConfigs ==
    {[threshold_bytes |-> 3, target_bytes |-> 2,
      fallback_threshold_bytes |-> 4, batch_size |-> 2,
      fallback_after_failures |-> n, fallback_retry_secs |-> 2,
      check_interval_secs |-> 1] : n \in {BackoffFailures, BackoffFailures + 1}}

InitBackoff ==
    /\ \E c \in BackoffConfigs : \E n \in 0..MaxBaseline :
          \E b \in [1..n -> 1..MaxSize] : InitEviction(c, b)
    /\ RecorderAtRest
    /\ ParserAtRest
    /\ OthersAtRest

SpecBackoff == InitBackoff /\ [][Next]_vars

\* ------------------------------------------- batches that stop at the target
\* the objects found at startup are small, or larger than anything the ingest
\* side stores: evicting a large one alone brings usage below the target
InitBatch ==
    /\ \E c \in Configs : \E n \in 0..MaxBaseline :
          \E b \in [1..n -> {1, MaxSize + 1}] : InitEviction(c, b)
    /\ RecorderAtRest
    /\ ParserAtRest
    /\ OthersAtRest

SpecBatch == InitBatch /\ [][Next]_vars

\* ------------------------------------ eviction beside the frame loop
\* The frame loop and the eviction task are two tokio tasks: the PUT of a
\* recording and its insertion into the index are separate steps, and a step
\* of the eviction task can come before, between or after them.
NextConcurrent ==
    \/ Startup
    \/ \E size \in 1..MaxSize : PutSend(size)
    \/ PutIndexed
    \/ ArchiveFlip
    \/ \E dt \in {cfg.check_interval_secs, cfg.fallback_retry_secs} : Sleep(dt)
    \/ BackoffDone
    \/ \E list_ok \in BOOLEAN : Check(list_ok)
    \/ \E get_ok \in BOOLEAN : EvictUpload(get_ok)
    \/ \E del_ok \in BOOLEAN : EvictDelete(del_ok)
    \/ \E del_ok \in BOOLEAN : FallbackDelete(del_ok)

\* batches long enough to list every object of the bucket, the newest too
ConcurrentConfigs == {[c EXCEPT !.batch_size = MaxKeys] : c \in Configs}

InitConcurrent ==
    /\ \E c \in ConcurrentConfigs : \E n \in 0..MaxBaseline :
          \E b \in [1..n -> 1..MaxSize] : InitEviction(c, b)
    /\ RecorderAtRest
    /\ ParserAtRest
    /\ OthersAtRest

SpecConcurrent == InitConcurrent /\ [][NextConcurrent]_vars

\* ------------------------------------------ a topic of JPEG and H.264 frames
\* frames per run
MaxMixed == 3

\* the payload decides the path, frame by frame: JPEG frames (two images and
\* one that does not decode) and H.264 access units in the same topic
MixedFrames ==
    {[kind |-> "Jpeg", data |-> d, nal_type |-> 0, captured_at_ms |-> NextTs] :
        d \in {<<0, 2>>, <<2, 0>>, <<>>}}
    \cup {[kind |-> "H264", data |-> Bytes(1), nal_type |-> n,
            captured_at_ms |-> NextTs] : n \in {PFrameNalType, IdrNalType}}

NextMixed ==
    /\ Len(topic) < MaxMixed
    /\ \E frame \in MixedFrames : \E dt \in ArrivalClockSteps :
          \E o \in ArrivalOutcomes : ProcessFrame(frame, dt, o)

SpecMixed == InitRecording /\ [][NextMixed]_vars

\* ------------------------------------------------------------------ claims

Removed == DOMAIN bucket \ DOMAIN bucket'

\* C1: outside fallback an object leaves the local store only after the
\* archive PUT of that object succeeded; while the local DELETE is pending
\* (upload done, delete not yet issued) the object is already in the archive.
C1_UploadThenDelete ==
    [][/\ \A k \in Removed : fallback_mode \/ k \in archive
       /\ pc' = "delete" => entries'[pos'].key \in archive']_vars

C1_Witness ==
    /\ objects_deleted_without_backup = 0
    /\ \E k \in archive : k \notin DOMAIN bucket

BatchFailedStep == pc = "upload" /\ pc' # "upload" /\ pc' # "delete"
BatchOkStep ==
    \/ pc = "delete" /\ pc' = "sleep"
    \/ pc = "awake" /\ ~fallback_mode' /\ batch_result' = "ok"
HealthCheckOkStep == pc = "awake" /\ fallback_mode /\ ~fallback_mode'

\* C2: consecutive_failures counts the failed batches in a row (a successful
\* batch sets it to 0), and fallback mode is entered exactly at the failed
\* batch that brings the count to fallback_after_failures.
C2_FallbackAfterN ==
    [][/\ BatchFailedStep => consecutive_failures' = consecutive_failures + 1
       /\ BatchOkStep => consecutive_failures' = 0
       /\ ~(BatchFailedStep \/ BatchOkStep \/ HealthCheckOkStep)
            => consecutive_failures' = consecutive_failures
       /\ (~fallback_mode /\ fallback_mode')
            <=> (BatchFailedStep /\ consecutive_failures + 1
                                        = cfg.fallback_after_failures)
       /\ ~fallback_mode' =>
            consecutive_failures' < cfg.fallback_after_failures]_vars

C2_Witness ==
    /\ cfg.fallback_after_failures = 2
    /\ fallback_mode
    /\ consecutive_failures = 2
    /\ s3_upload_failures = 2
    /\ batch_result = "upload"

Elapsed == fallback_entered_at[1]

\* C3: fallback is left only by a health check that succeeded, made when
\* fallback_retry_secs have elapsed; a failed check restarts the timer and
\* stays in fallback; before the timer expires nothing is attempted; and if
\* the archive stays reachable the loop gets back to normal mode.
C3_HealthCheckExit ==
    /\ [][/\ (fallback_mode /\ ~fallback_mode') =>
                /\ pc = "awake"
                /\ Elapsed >= cfg.fallback_retry_secs
                /\ archive_up
                /\ consecutive_failures' = 0
                /\ fallback_entered_at' = None
          /\ (pc = "awake" /\ pc' # "awake" /\ fallback_mode
                /\ Elapsed >= cfg.fallback_retry_secs) =>
                IF archive_up THEN ~fallback_mode'
                ELSE fallback_mode' /\ fallback_entered_at' = Some(0)
          /\ (pc = "awake" /\ pc' # "awake" /\ fallback_mode
                /\ Elapsed < cfg.fallback_retry_secs) =>
                fallback_mode' /\ fallback_entered_at' = fallback_entered_at
         ]_vars
    /\ (<>[]archive_up) => ([]<>(~fallback_mode))

C3_Witness ==
    /\ ~fallback_mode
    /\ consecutive_failures = 0
    /\ objects_deleted_without_backup > 0

\* C4: consecutive_failures grows only at a tick whose archive PUT failed.
C4_PutFailureSoleTrigger ==
    [][consecutive_failures' > consecutive_failures =>
          (pc = "upload" /\ ~archive_up /\ batch_result' = "upload")]_vars

\* C5: objects_deleted_without_backup grows by exactly the number of objects
\* that left the local store in a fallback step, and not at all otherwise.
C5_DeletedWithoutBackup ==
    [][objects_deleted_without_backup' - objects_deleted_without_backup
          = IF fallback_mode THEN Cardinality(Removed) ELSE 0]_vars

\* the oldest object survived a failed DELETE, the next one was deleted
C5_Witness ==
    /\ objects_deleted_without_backup = 1
    /\ archive = {}
    /\ next_key > 2
    /\ 1 \in DOMAIN bucket
    /\ 2 \notin DOMAIN bucket

\* C6: a batch that returns success after evicting at least one object leaves
\* the tracked total strictly below the total sampled before the batch.
C6_TotalDecreases ==
    [][(pc = "delete" /\ pc' = "sleep") => Total' < total_bytes]_vars

\* a step that ends a tick of the loop
TickEnds == pc \in {"awake", "upload", "delete"} /\ pc' = "sleep"

\* C7 as stated: with 2048 objects of 512 KiB, threshold 1 GB and target
\* 0.8 GB, the tick ends with the total below target and with the oldest
\* objects needed for that (between 410 and 512) in the archive.
C7_BelowTargetAfterOneTick ==
    [][(TickEnds /\ next_key = ThresholdObjects + 1) =>
          /\ Total' < cfg.target_bytes
          /\ \E m \in 410..512 : archive' = 1..m]_vars

\* C7 amended: a tick evicts only when the total it samples is strictly above
\* the threshold, and then moves exactly the batch_size oldest objects: the
\* total drops by 50 objects and is still not below target.
C7_OneBatchPerTick ==
    [][/\ (pc = "awake" /\ pc' = "sleep") =>
             /\ Total <= cfg.threshold_bytes
             /\ archive' = archive /\ bucket' = bucket /\ Total' = Total
       /\ pc' = "upload" => total_bytes' > cfg.threshold_bytes
       /\ (pc = "delete" /\ pc' = "sleep") =>
             /\ archive' = 1..DefaultBatchSize
             /\ DOMAIN bucket' = (DefaultBatchSize + 1)..(next_key - 1)
             /\ Total' = total_bytes - DefaultBatchSize * ObjectBytes
             /\ Total' >= cfg.target_bytes]_vars

C7_Witness ==
    /\ pc = "sleep"
    /\ next_key = ThresholdObjects + 2
    /\ s3_upload_successes = DefaultBatchSize
    /\ archive = 1..DefaultBatchSize
    /\ Total >= cfg.target_bytes

\* ---- recorder steps: the frame of the step and the rows it appended
Fed == topic'[Len(topic')]
NewRows == SubSeq(segments', Len(segments) + 1, Len(segments'))

\* a frame the machine does not drop
Accepted(fr) == fr.kind = "H264" \/ compute_ahash(fr.data) # None

RECURSIVE LastAccepted(_)
LastAccepted(s) ==
    IF s = <<>> THEN 0
    ELSE IF Accepted(s[Len(s)]) THEN s[Len(s)].captured_at_ms
    ELSE LastAccepted(SubSeq(s, 1, Len(s) - 1))

HashDistance(d1, d2) == hamming(compute_ahash(d1)[1], compute_ahash(d2)[1])

RowIs(row, type, start_ms, end_ms) ==
    row.type = type /\ row.start_ms = start_ms /\ row.end_ms = end_ms

\* the frame of the step differs from the idle baseline
ChangesScene ==
    IF Fed.kind = "Jpeg"
    THEN /\ Accepted(Fed)
         /\ HashDistance(state.initial_payload, Fed.data) > rcfg.phash_threshold
    ELSE is_active(frame_size_filter, Len(Fed.data), Fed.nal_type).active

\* an Idle state stands for a run of frames of the topic: it began at the
\* frame whose payload it keeps, every JPEG frame since is similar to that
\* one, and last_similar_ms is the timestamp of the last frame of the run
IdleTracksTopic ==
    state.kind = "Idle" =>
        /\ state.last_similar_ms = LastAccepted(topic)
        /\ \E i \in 1..Len(topic) :
             /\ topic[i].captured_at_ms = state.idle_start_ms
             /\ topic[i].data = state.initial_payload
             /\ \A j \in i..Len(topic) :
                  (topic[j].kind = "Jpeg" /\ Accepted(topic[j])) =>
                      HashDistance(topic[i].data, topic[j].data)
                          <= rcfg.phash_threshold

\* C8 as stated: a frame that changes the scene, processed in Idle after the
\* frames ts_0..ts_{k-1}, appends exactly one idle row [ts_0, ts_{k-1}] and
\* leaves the machine Active, started at that frame, with the count at 0.
C8_OneIdleSegmentThenActive ==
    [][(state.kind = "Idle" /\ ChangesScene) =>
          /\ Len(NewRows) = 1
          /\ RowIs(NewRows[1], "idle", state.idle_start_ms, LastAccepted(topic))
          /\ state'.kind = "Active"
          /\ state'.segment_start_ms = Fed.captured_at_ms
          /\ state'.consecutive_idle_count = 0]_vars

\* C8 amended: the idle row [ts_0, ts_{k-1}] is appended exactly when the PUT
\* of the representative JPEG (JPEG path) and the insert succeed, and no row
\* otherwise; the machine is Active from that frame with the count at 0 when
\* the encoder starts and takes the frame, and otherwise Idle with the frame
\* as its new baseline.
C8_IdleSegmentThenActive ==
    /\ []IdleTracksTopic
    /\ [][(state.kind = "Idle" /\ ChangesScene) =>
            /\ IF (Fed.kind = "H264" \/ outcome'.put) /\ outcome'.insert
               THEN /\ Len(NewRows) = 1
                    /\ RowIs(NewRows[1], "idle", state.idle_start_ms,
                             LastAccepted(topic))
                    /\ NewRows[1].end_ms < Fed.captured_at_ms
               ELSE NewRows = <<>>
            /\ IF outcome'.start /\ outcome'.push
               THEN /\ state'.kind = "Active"
                    /\ state'.segment_start_ms = Fed.captured_at_ms
                    /\ state'.consecutive_idle_count = 0
                    /\ ffmpeg'[state'.encoder].pushed = <<Fed.captured_at_ms>>
               ELSE /\ state'.kind = "Idle"
                    /\ state'.initial_payload = Fed.data
                    /\ state'.idle_start_ms = Fed.captured_at_ms
                    /\ state'.last_similar_ms = Fed.captured_at_ms]_vars

\* an H.264 idle period of two frames or more was closed by the last frame
C8_Witness ==
    /\ rcfg.source = "h264"
    /\ state.kind = "Active"
    /\ state.segment_start_ms = Len(topic)
    /\ segments # <<>>
    /\ segments[Len(segments)].type = "idle"
    /\ segments[Len(segments)].start_ms < segments[Len(segments)].end_ms
    /\ segments[Len(segments)].end_ms = Len(topic) - 1

\* the frame of the step is similar to the frame before it (JPEG), or quiet
\* (H.264)
SimilarToPrevious ==
    IF Fed.kind = "Jpeg"
    THEN hamming(state.last_frame_hash[1], compute_ahash(Fed.data)[1])
           <= rcfg.phash_threshold
    ELSE is_quiet(frame_size_filter', Len(Fed.data))

\* a frame of an Active machine before the deadline, with a healthy encoder
ActiveFrame ==
    /\ state.kind = "Active"
    /\ Accepted(Fed)
    /\ now' < state.segment_deadline
    /\ outcome'.push
    /\ outcome'.finish

AcceptedSince(start_ms) ==
    SelectSeq(topic, LAMBDA fr : Accepted(fr) /\ fr.captured_at_ms >= start_ms)

RECURSIVE TrailingSimilar(_)
TrailingSimilar(s) ==
    IF Len(s) < 2 THEN 0
    ELSE IF HashDistance(s[Len(s) - 1].data, s[Len(s)].data)
              <= rcfg.phash_threshold
    THEN 1 + TrailingSimilar(SubSeq(s, 1, Len(s) - 1))
    ELSE 0

\* in Active the count stays below the configured number, and on the JPEG path
\* it is the number of frames at the end of the segment that were each similar
\* to the frame before them
CountTracksTopic ==
    state.kind = "Active" =>
        /\ state.consecutive_idle_count
             < rcfg.active_to_idle_consecutive_frames
        /\ ~state.is_h264 =>
             state.consecutive_idle_count
               = TrailingSimilar(AcceptedSince(state.segment_start_ms))

\* C9 as stated: in Active, before the deadline and with a healthy encoder,
\* the machine goes to Idle exactly at the frame that makes the configured
\* number of consecutive similar frames; that step appends exactly one active
\* row; a frame that is not similar sets the count to 0.
C9_StabilizedEmitsOneSegment ==
    [][ActiveFrame =>
          /\ (state'.kind = "Idle") <=>
                (SimilarToPrevious /\ state.consecutive_idle_count + 1
                     >= rcfg.active_to_idle_consecutive_frames)
          /\ state'.kind = "Idle" =>
                /\ Len(NewRows) = 1
                /\ RowIs(NewRows[1], "active", state.segment_start_ms,
                         Fed.captured_at_ms)
          /\ state'.kind = "Active" =>
                /\ NewRows = <<>>
                /\ state'.encoder = state.encoder
                /\ state'.consecutive_idle_count =
                     IF SimilarToPrevious
                     THEN state.consecutive_idle_count + 1 ELSE 0]_vars

\* C9 amended: as C9, but the step to Idle appends its one active row exactly
\* when the local-store PUT of the segment and the insert succeed, and no row
\* otherwise.
C9_StabilizedReturnsToIdle ==
    /\ []CountTracksTopic
    /\ [][ActiveFrame =>
            /\ (state'.kind = "Idle") <=>
                  (SimilarToPrevious /\ state.consecutive_idle_count + 1
                       >= rcfg.active_to_idle_consecutive_frames)
            /\ state'.kind = "Idle" =>
                  /\ ffmpeg'[state.encoder].finished = 1
                  /\ IF outcome'.put /\ outcome'.insert
                     THEN /\ Len(NewRows) = 1
                          /\ RowIs(NewRows[1], "active",
                                   state.segment_start_ms, Fed.captured_at_ms)
                     ELSE NewRows = <<>>
            /\ state'.kind = "Active" =>
                  /\ NewRows = <<>>
                  /\ state'.encoder = state.encoder
                  /\ state'.consecutive_idle_count =
                       IF SimilarToPrevious
                       THEN state.consecutive_idle_count + 1 ELSE 0]_vars

\* a JPEG segment of the starting frame and two similar frames was closed
C9_Witness ==
    /\ rcfg.source = "mjpeg"
    /\ state.kind = "Idle"
    /\ state.idle_start_ms = Len(topic)
    /\ segments # <<>>
    /\ RowIs(segments[Len(segments)], "active", Len(topic) - 2, Len(topic))
    /\ ffmpeg[Len(ffmpeg)].frame_count = 3
    /\ ffmpeg[Len(ffmpeg)].finished = 1

\* a frame of an Active machine at or after the deadline
DeadlineFrame ==
    /\ state.kind = "Active"
    /\ Accepted(Fed)
    /\ now' >= state.segment_deadline

\* the encoders that were given the frame of the step
PushedTo ==
    {e \in 1..Len(ffmpeg') :
        \E i \in 1..Len(ffmpeg'[e].pushed) :
            ffmpeg'[e].pushed[i] = Fed.captured_at_ms}

\* C10 as stated: at or after the deadline the same call finishes the segment
\* and appends exactly one active row, and starts a new segment at the frame,
\* which goes to the new encoder only; the machine stays Active unless the new
\* encoder fails to start.
C10_RollAtDeadline ==
    [][DeadlineFrame =>
          /\ Len(NewRows) = 1
          /\ RowIs(NewRows[1], "active", state.segment_start_ms,
                   Fed.captured_at_ms)
          /\ ffmpeg'[state.encoder].finished = 1
          /\ IF Len(ffmpeg') > Len(ffmpeg)
             THEN /\ state'.kind = "Active"
                  /\ state'.encoder = Len(ffmpeg')
                  /\ state'.segment_start_ms = Fed.captured_at_ms
                  /\ PushedTo = {Len(ffmpeg')}
             ELSE state'.kind = "Idle"]_vars

\* C10 amended: the row is appended exactly when finish, PUT and insert
\* succeed (no row otherwise), and the machine stays Active, on the new
\* encoder, unless that encoder fails to start or does not take the frame;
\* then it is Idle with the frame as baseline.
C10_RollsAtDeadline ==
    [][DeadlineFrame =>
          /\ IF outcome'.finish /\ outcome'.put /\ outcome'.insert
             THEN /\ Len(NewRows) = 1
                  /\ RowIs(NewRows[1], "active", state.segment_start_ms,
                           Fed.captured_at_ms)
                  /\ NewRows[1].frame_count = ffmpeg[state.encoder].frame_count
             ELSE NewRows = <<>>
          /\ ffmpeg'[state.encoder].finished = 1
          /\ ffmpeg'[state.encoder].pushed = ffmpeg[state.encoder].pushed
          /\ IF outcome'.start /\ outcome'.push
             THEN /\ state'.kind = "Active"
                  /\ state'.encoder = Len(ffmpeg')
                  /\ state'.encoder # state.encoder
                  /\ state'.segment_start_ms = Fed.captured_at_ms
                  /\ state'.consecutive_idle_count = 0
                  /\ state'.segment_deadline
                       = now' + rcfg.segment_duration_secs
                  /\ ffmpeg'[state'.encoder].pushed = <<Fed.captured_at_ms>>
                  /\ PushedTo = {state'.encoder}
             ELSE /\ state'.kind = "Idle"
                  /\ state'.idle_start_ms = Fed.captured_at_ms
                  /\ PushedTo = {}]_vars

\* a segment was rolled: its row ends where the running segment starts
C10_Witness ==
    /\ state.kind = "Active"
    /\ state.encoder = 2
    /\ state.segment_start_ms = Len(topic)
    /\ segments # <<>>
    /\ segments[Len(segments)].type = "active"
    /\ segments[Len(segments)].end_ms = state.segment_start_ms
    /\ ffmpeg[1].finished = 1
    /\ ffmpeg[2].pushed = <<state.segment_start_ms>>

\* C11: a frame similar to the idle baseline, processed in Idle, appends no
\* row, stores nothing, starts no encoder and leaves the machine in Idle with
\* idle_start_ms and the representative payload unchanged and last_similar_ms
\* at the frame's timestamp; so does every run of such frames.
C11_SimilarFramesStayIdle ==
    [][(state.kind = "Idle" /\ Accepted(Fed) /\ ~ChangesScene) =>
          /\ NewRows = <<>>
          /\ bucket' = bucket
          /\ ffmpeg' = ffmpeg
          /\ state'.kind = "Idle"
          /\ state'.idle_start_ms = state.idle_start_ms
          /\ state'.initial_payload = state.initial_payload
          /\ state'.last_similar_ms = Fed.captured_at_ms]_vars

\* the baseline and two frames similar to it, one of them at distance 1
C11_Witness ==
    /\ state.kind = "Idle"
    /\ Len(topic) = 3
    /\ state.idle_start_ms = topic[1].captured_at_ms
    /\ state.last_similar_ms = topic[3].captured_at_ms
    /\ HashDistance(topic[1].data, topic[3].data) = rcfg.phash_threshold
    /\ \A i \in 1..3 : topic[i].kind = "Jpeg" /\ Accepted(topic[i])
    /\ segments = <<>>

\* objects of the local store by extension
StoredAs(ext) == {k \in DOMAIN bucket : k.ext = ext}

ScenarioFed == Len(topic) = Len(JpegScenarioTopic)

\* C12 as stated: after the 25 frames the rows are idle[1000..1900] and one
\* active row from 2000 ending by 2900, the machine is in an Idle period from
\* 3000 with last_similar_ms 3400, and the store holds one JPEG and one MP4.
C12_IdleActiveIdleRows ==
    ScenarioFed =>
        /\ Len(segments) = 2
        /\ RowIs(segments[1], "idle", 1000, 1900)
        /\ segments[2].type = "active"
        /\ segments[2].start_ms = 2000
        /\ segments[2].end_ms <= 2900
        /\ state.kind = "Idle"
        /\ state.idle_start_ms = 3000
        /\ state.last_similar_ms = 3400
        /\ Cardinality(StoredAs("jpg")) = 1
        /\ Cardinality(StoredAs("mp4")) = 1

\* C12 amended: after the 25 frames the only row is idle[1000..1900]; the
\* machine is still Active in the segment that started at 2000, which holds
\* the 15 frames from 2000 to 3400, with a count of 4 (the grey frame at 3000
\* differs from the frame before it); the store holds one JPEG and no MP4.
C12_IdleRowThenStillActive ==
    /\ ScenarioFed =>
        /\ Len(segments) = 1
        /\ RowIs(segments[1], "idle", 1000, 1900)
        /\ segments[1].s3_key = idle_jpeg_key(1000, 1900)
        /\ state.kind = "Active"
        /\ state.segment_start_ms = 2000
        /\ state.consecutive_idle_count = 4
        /\ Len(ffmpeg) = 1
        /\ ffmpeg[1].finished = 0
        /\ ffmpeg[1].pushed = [i \in 1..15 |-> 2000 + 100 * (i - 1)]
        /\ StoredAs("jpg") = {idle_jpeg_key(1000, 1900)}
        /\ StoredAs("mp4") = {}
    /\ Len(topic) \in 1..10 =>
        /\ segments = <<>>
        /\ state.kind = "Idle"
        /\ state.idle_start_ms = 1000
        /\ state.last_similar_ms = topic[Len(topic)].captured_at_ms

C12_Witness ==
    /\ rcfg = JpegScenarioCfg
    /\ ScenarioFed
    /\ topic[25].captured_at_ms = 3400
    /\ state.kind = "Active"
    /\ Len(segments) = 1

\* C13: when a push fails while the machine is Active, the same call finishes
\* the encoder of the segment, uploads what it wrote when finish, PUT and
\* insert succeed, and leaves the machine in Idle with payload, idle_start_ms
\* and last_similar_ms taken from the frame; no failed push leaves the machine
\* Active.
C13_PushFailureForcesIdle ==
    [][~outcome'.push =>
          /\ state'.kind = "Idle"
          /\ state'.initial_payload = Fed.data
          /\ state'.idle_start_ms = Fed.captured_at_ms
          /\ state'.last_similar_ms = Fed.captured_at_ms
          /\ state.kind = "Active" =>
                /\ ffmpeg'[state.encoder].finished = 1
                /\ now' < state.segment_deadline =>
                      /\ Len(ffmpeg') = Len(ffmpeg)
                      /\ ffmpeg'[state.encoder].pushed
                           = ffmpeg[state.encoder].pushed
                      /\ IF outcome'.finish /\ outcome'.put /\ outcome'.insert
                         THEN /\ Len(NewRows) = 1
                              /\ RowIs(NewRows[1], "active",
                                       state.segment_start_ms,
                                       Fed.captured_at_ms)
                         ELSE NewRows = <<>>]_vars

\* the only encoder rejected a frame in the middle of its segment
C13_Witness ==
    /\ ~outcome.push
    /\ state.kind = "Idle"
    /\ state.idle_start_ms = Len(topic)
    /\ Len(ffmpeg) = 1
    /\ ffmpeg[1].finished = 1
    /\ ffmpeg[1].frame_count >= 1
    /\ segments # <<>>
    /\ RowIs(segments[Len(segments)], "active", ffmpeg[1].start_ms, Len(topic))

\* a row that names an object of the local store
NamesObject(row) == row.s3_key.ext # ""

\* C14: a finalization whose local-store PUT fails appends no row and leaves
\* the session index and the store as they were; every row that names an
\* object names one that a PUT stored, with the size the row records.
C14_NoRowWithoutPut ==
    /\ [](\A i \in 1..Len(segments) :
            NamesObject(segments[i]) =>
                /\ segments[i].s3_key \in DOMAIN bucket
                /\ bucket[segments[i].s3_key] = segments[i].size_bytes)
    /\ [][~outcome'.put =>
            /\ NewRows = <<>>
            /\ index' = index
            /\ bucket' = bucket]_vars

\* the PUT of the representative JPEG failed: the idle period left no row
C14_Witness ==
    /\ ~outcome.put
    /\ rcfg.source = "mjpeg"
    /\ state.kind = "Active"
    /\ state.segment_start_ms = Len(topic)
    /\ segments = <<>>
    /\ DOMAIN bucket = {}

\* the frames of the topic carry capture timestamps that never go back
InCaptureOrder ==
    \A i \in 1..(Len(topic) - 1) :
        topic[i].captured_at_ms <= topic[i + 1].captured_at_ms

\* two rows overlap when they share more than an endpoint
Overlap(r1, r2) == r1.start_ms < r2.end_ms /\ r2.start_ms < r1.end_ms

RowsDisjoint ==
    /\ \A i \in 1..Len(segments) : segments[i].start_ms <= segments[i].end_ms
    /\ \A i, j \in 1..Len(segments) :
          i < j => ~Overlap(segments[i], segments[j])

RowsInStartOrder ==
    \A i, j \in 1..Len(segments) :
        i < j => segments[i].start_ms <= segments[j].start_ms

\* C15 as stated: over any sequence of frames every row has
\* start_ms <= end_ms and no two rows overlap.
C15_RowsNeverOverlap == RowsDisjoint

\* C15 amended: the same, over every sequence of frames whose capture
\* timestamps do not decrease in arrival order.
C15_OrderedFramesRowsDisjoint == InCaptureOrder => RowsDisjoint

\* an idle row and an active row that share an endpoint
C15_Witness ==
    /\ InCaptureOrder
    /\ Len(segments) = 2
    /\ segments[1].type = "idle"
    /\ segments[2].type = "active"
    /\ segments[1].end_ms = segments[2].start_ms
    /\ segments[2].start_ms < segments[2].end_ms

\* C16 as stated: for every sequence of frames in arrival order, a row
\* inserted later has a start_ms at or after that of a row inserted earlier.
C16_RowsInStartOrder == RowsInStartOrder

\* C16 amended: the same, for every sequence of frames whose capture
\* timestamps do not decrease in arrival order.
C16_OrderedFramesRowsInStartOrder == InCaptureOrder => RowsInStartOrder

\* two rows, the later one starting later
C16_Witness ==
    /\ InCaptureOrder
    /\ Len(segments) = 2
    /\ segments[1].start_ms < segments[2].start_ms
    /\ topic[1].captured_at_ms < topic[Len(topic)].captured_at_ms

\* timestamp units that an active row may exceed the segment duration by
ClockSlack == 1

\* C17: every active row spans at most the segment duration plus the slack,
\* whatever the arrival pattern (one timestamp unit per clock unit).
C17_ActiveRowBounded ==
    \A i \in 1..Len(segments) :
        segments[i].type = "active" =>
            segments[i].end_ms - segments[i].start_ms
                <= rcfg.segment_duration_secs + ClockSlack

\* C18: an encoder that was started and is no longer the one of the running
\* segment has been finished exactly once, on every path; the encoder of the
\* running segment has not been finished.
C18_EncoderFinishedOnce ==
    \A e \in 1..Len(ffmpeg) :
        IF state.kind = "Active" /\ state.encoder = e
        THEN ffmpeg[e].finished = 0
        ELSE ffmpeg[e].finished = 1

\* feeding the whole of s as one chunk to a parser that just connected
Whole(s) ==
    OnChunk([state |-> "SeekingBoundary", buffer |-> <<>>, jpeg_start |-> 0,
             produced |-> <<>>], s)

\* C19: however the body was split into chunks so far, the payloads produced
\* are, in order, those produced by feeding the bytes received as one chunk;
\* in particular once the whole body has been received.
C19_ChunkingInvariance ==
    /\ produced = Whole(received).produced
    /\ parse_state = Whole(received).state

\* a chunk ended inside the boundary that closes the second payload, after
\* the first payload was produced
C19_Witness ==
    /\ parse_state = "CollectingJpeg"
    /\ produced = << <<"x", "\r", "\n", "y">> >>
    /\ buffer = <<"y", "x", "\r", "\n", "-", "-", "f">>
    /\ byte_stream = <<"r", "a", "m", "e", "\r", "\n">>

Contains(haystack, needle) == find_subsequence(haystack, needle) # None

\* C20: while the body holds no boundary, the parser is in SeekingBoundary and
\* keeps at most |BOUNDARY| bytes after each chunk.
C20_BoundedWithoutBoundary ==
    ~Contains(received \o byte_stream, BOUNDARY) =>
        /\ parse_state = "SeekingBoundary"
        /\ Len(buffer) <= Len(BOUNDARY)
        /\ produced = <<>>

\* more than two boundaries' worth of bytes went by, nine are kept
C20_Witness ==
    /\ ~Contains(received \o byte_stream, BOUNDARY)
    /\ Len(received) > 2 * Len(BOUNDARY)
    /\ Len(buffer) = Len(BOUNDARY)
    /\ byte_stream = <<>>

\* C21: in both producer loops, over any sequence of clean and failed
\* connections, the first reconnect delay is 2 s, the delay after a failed
\* connection is twice the delay before it but never more than 30 s, the delay
\* after a clean end of stream is 2 s, and every delay is within 2..30 s
C21_ReconnectDelays ==
    \A i \in 1..Len(slept) :
        /\ slept[i].delay >= 2 /\ slept[i].delay <= 30
        /\ i = 1 => slept[i].delay = 2
        /\ slept[i].result = "clean" => slept[i].delay = 2
        /\ (i > 1 /\ slept[i].result = "failed") =>
               slept[i].delay = (IF 2 * slept[i-1].delay < 30
                                 THEN 2 * slept[i-1].delay ELSE 30)

\* five failures in a row reach the cap, a clean end resets, and the failure
\* after it doubles again
C21_Witness ==
    /\ Len(slept) = 7
    /\ \A i \in 1..5 : slept[i].result = "failed"
    /\ slept[5].delay = 30
    /\ slept[6] = [result |-> "clean", delay |-> 2]
    /\ slept[7] = [result |-> "failed", delay |-> 4]

\* C22: every frame, JPEG or H.264, with any 64-bit captured_at_ms, any seq
\* and any nal_type, comes back from deserialize(serialize(f)) as Ok with the
\* same variant, payload bytes, nal_type, captured_at_ms and seq.
C22_RoundTrip ==
    rx_frame # None => rx_frame[1] = Ok(tx_frame)

Returned == {listing[1][i].key : i \in 1..Len(listing[1])}

\* at most list_n objects, in the byte-wise order of their keys, and none
\* that started after an object left in the bucket
OldestFirst ==
    /\ Len(listing[1]) <= list_n
    /\ \A i \in 1..Len(listing[1]) : \A j \in (i + 1)..Len(listing[1]) :
          \E k \in 1..Len(listing[1][i].key) :
             /\ SubSeq(listing[1][i].key, 1, k - 1)
                  = SubSeq(listing[1][j].key, 1, k - 1)
             /\ k <= Len(listing[1][j].key)
             /\ CodePoint(listing[1][i].key[k])
                  < CodePoint(listing[1][j].key[k])
    /\ \A o \in bucket_objects : \A q \in bucket_objects :
          (o.key \in Returned /\ q.key \notin Returned)
              => o.start_ms <= q.start_ms

Wanted(q) ==
    {i \in 1..Len(seg_table) :
        /\ seg_table[i].robot_id = request[1].robot_id
        /\ q.start_ms # None => seg_table[i].end_ms >= q.start_ms[1]
        /\ q.end_ms # None => seg_table[i].start_ms <= q.end_ms[1]
        /\ q.segment_type # None => seg_table[i].type = q.segment_type[1]}

\* C24: the listing succeeds whichever of start_ms, end_ms and type are
\* supplied, and (when the limit does not cut it) returns exactly the robot's
\* rows that pass the supplied filters, by ascending start_ms.
C24_ListSegmentsFilters ==
    (request # None /\ request[1].op = "list_segments") =>
        LET q == request[1].q
            body == reply[1].body
        IN /\ reply[1].status = 200
           /\ \A i \in 1..(Len(body) - 1) :
                 body[i].start_ms <= body[i + 1].start_ms
           /\ {body[i].id : i \in 1..Len(body)}
                 \subseteq {seg_table[i].id : i \in Wanted(q)}
           /\ (q.limit = None /\ Cardinality(Wanted(q)) <= 100) =>
                 /\ Len(body) = Cardinality(Wanted(q))
                 /\ {body[i].id : i \in 1..Len(body)}
                       = {seg_table[i].id : i \in Wanted(q)}

\* C25: a listing never holds more than 1000 rows, whatever the limit
\* parameter is, and never more than 100 when there is none.
C25_ListSegmentsLimit ==
    (request # None /\ request[1].op = "list_segments") =>
        /\ Len(reply[1].body) <= 1000
        /\ request[1].q.limit = None => Len(reply[1].body) <= 100

\* a step in which create_clip handled a request; req is that request
ClipStep == api_now' # api_now /\ request'[1].op = "create_clip"

CollectionExists(collection_id) ==
    \E c \in collections : c.id = collection_id /\ c.robot_id = Robot

ExistingIds == {seg_table[i].id : i \in 1..Len(seg_table)}

Ids(seq) == {seq[i] : i \in 1..Len(seq)}

SpanTaken(collection_id, body) ==
    \E k \in collection_clips :
        /\ k.collection_id = collection_id
        /\ k.clip_start_ms = body.clip_start_ms
        /\ k.clip_end_ms = body.clip_end_ms

IndexUntouched ==
    /\ collections' = collections
    /\ collection_clips' = collection_clips
    /\ labelled_data' = labelled_data

\* C26: a create clip whose segment_ids name existing and missing segments is
\* answered 201, and the segment_ids of the new clip row and of the reply name
\* no missing segment; the manifest written has one entry per existing one.
C26_ClipReferencesExistingOnly ==
    [][LET req == request'[1]
       IN (/\ ClipStep
           /\ CollectionExists(req.collection_id)
           /\ Ids(req.body.segment_ids) \cap ExistingIds # {}
           /\ Ids(req.body.segment_ids) \ ExistingIds # {}
           /\ ~SpanTaken(req.collection_id, req.body))
          => /\ reply'[1].status = 201
             /\ Ids(reply'[1].body.segment_ids) \subseteq ExistingIds
             /\ \A k \in collection_clips' \ collection_clips :
                   Ids(k.segment_ids) \subseteq ExistingIds
             /\ req.put_ok =>
                   LET listed ==
                          labelled_data'[reply'[1].body.manifest_s3_key]
                              .segments
                   IN /\ Len(listed)
                          = Cardinality(Ids(req.body.segment_ids)
                                        \cap ExistingIds)
                      /\ \A i \in 1..Len(listed) :
                            listed[i].segment_id \in ExistingIds]_vars

C28_PutFailureKeepsInsert ==
    [][LET req == request'[1]
       IN (/\ ClipStep
           /\ ~req.put_ok
           /\ CollectionExists(req.collection_id)
           /\ Ids(req.body.segment_ids) \cap ExistingIds # {})
          => /\ LET same == create_clip(req.collection_id, req.body, TRUE)
                IN /\ reply'[1] = same.reply
                   /\ collections' = same.collections
                   /\ collection_clips' = same.collection_clips
                   /\ sqlite_sequence' = same.sqlite_sequence
             /\ labelled_data' = labelled_data
             /\ ~SpanTaken(req.collection_id, req.body) =>
                   /\ reply'[1].status = 201
                   /\ \E k \in collection_clips' \ collection_clips :
                         /\ k.collection_id = req.collection_id
                         /\ k.clip_start_ms = req.body.clip_start_ms
                         /\ k.clip_end_ms = req.body.clip_end_ms
                   /\ \A c \in collections' :
                         c.id = req.collection_id =>
                             c.updated_at = api_now /\ c.created_at < api_now
                ]_vars

\* a clip was created although its manifest could not be written
C28_Witness ==
    /\ request # None
    /\ request[1].op = "create_clip"
    /\ ~request[1].put_ok
    /\ reply[1].status = 201
    /\ reply[1].body.manifest_s3_key \notin DOMAIN labelled_data
    /\ \E k \in collection_clips : k.id = reply[1].body.id
    /\ \E c \in collections :
          c.id = request[1].collection_id /\ c.updated_at > c.created_at

\* C29: every clip row has clip_start_ms <= clip_end_ms and names at least
\* one segment, and no two clips of a collection have the same span.
C29_ClipRowsWellFormed ==
    \A k \in collection_clips :
        /\ k.clip_start_ms <= k.clip_end_ms
        /\ k.segment_ids # <<>>
        /\ \A o \in collection_clips :
              (/\ o.collection_id = k.collection_id
               /\ o.clip_start_ms = k.clip_start_ms
               /\ o.clip_end_ms = k.clip_end_ms) => o = k

\* C30: a packet is handed to the PES assembler only if the byte that follows
\* it in the stream is the sync byte, and, however the stream was split into
\* reads, the packets handed over are those of one read of all bytes received.
C30_AlignerChecksNextSync ==
    /\ \A i \in 1..Len(ts_packets) :
          /\ ts_packets[i].at + TS_PACKET_SIZE + 1 <= Len(tcp_received)
          /\ tcp_received[ts_packets[i].at + TS_PACKET_SIZE + 1] = TS_SYNC_BYTE
    /\ ts_packets = OnRead(Aligner(<<>>, 0, <<>>), tcp_received).packets

\* the packet a step pushed, when the step pushed exactly one
OnePacketStep == Len(ts_packets') = Len(ts_packets) + 1
Pushed == ts_packets'[Len(ts_packets')].bytes

\* the payload of a TS packet: what follows the header and, when there is
\* one, the adaptation field
TsPayload(packet) ==
    LET afc == (packet[4] \div 16) % 4
    IN IF afc = 1 THEN SubSeq(packet, 5, Len(packet))
       ELSE IF afc = 3 THEN SubSeq(packet, 6 + packet[5], Len(packet))
       ELSE <<>>

\* a PUSI packet, not PAT and not null, whose payload begins 00 00 01 SS
\* with SS in [0xE0, 0xEF]
BeginsVideoPes(packet) ==
    /\ TsPusi(packet)
    /\ TsPid(packet) \notin {0, 8191}
    /\ Len(TsPayload(packet)) >= 4
    /\ SubSeq(TsPayload(packet), 1, 3) = <<0, 0, 1>>
    /\ TsPayload(packet)[4] \in 224..239

\* the PID of the first such packet among those pushed
FirstVideoPid(packets) ==
    LET at == {i \in 1..Len(packets) : BeginsVideoPes(packets[i].bytes)}
    IN IF at = {} THEN None
       ELSE Some(TsPid(packets[CHOOSE i \in at : \A j \in at : i <= j].bytes))

\* C31: the video PID is that of the first PUSI packet (not PAT, not null)
\* whose payload begins 00 00 01 SS with SS in [0xE0, 0xEF]; once set no
\* packet changes it; a packet of another PID leaves the access unit being
\* collected, and the units emitted, as they were.
C31_VideoPidSetOnce ==
    [][/\ pes_assembler.video_pid # None
          => pes_assembler'.video_pid = pes_assembler.video_pid
       /\ pes_assembler'.video_pid = FirstVideoPid(ts_packets')
       /\ (OnePacketStep /\ pes_assembler'.video_pid # Some(TsPid(Pushed)))
          => /\ pes_assembler'.current_pes = pes_assembler.current_pes
             /\ pes_assembler'.collecting = pes_assembler.collecting
             /\ access_units' = access_units]_vars

\* the video PID was fixed by one packet and a later packet of another PID
\* began a video PES, while an access unit was being collected
C31_Witness ==
    /\ pes_assembler.video_pid # None
    /\ pes_assembler.current_pes # <<>>
    /\ \E i, j \in 1..Len(ts_packets) :
          /\ i < j
          /\ BeginsVideoPes(ts_packets[i].bytes)
          /\ BeginsVideoPes(ts_packets[j].bytes)
          /\ Some(TsPid(ts_packets[i].bytes)) = pes_assembler.video_pid
          /\ Some(TsPid(ts_packets[j].bytes)) # pes_assembler.video_pid

\* the PUSI packets of the video PID that carry payload, among those pushed
VideoPesStarts ==
    {i \in 1..Len(ts_packets) :
        /\ TsPusi(ts_packets[i].bytes)
        /\ Some(TsPid(ts_packets[i].bytes)) = pes_assembler.video_pid
        /\ TsPayload(ts_packets[i].bytes) # <<>>}

\* the last of them does not carry the prefix 00 00 01
LastPesStartInvalid ==
    /\ VideoPesStarts # {}
    /\ LET last == CHOOSE i \in VideoPesStarts :
                       \A j \in VideoPesStarts : j <= i
       IN SubSeq(TsPayload(ts_packets[last].bytes), 1, 3) # <<0, 0, 1>>

\* C32: an access unit is emitted only by a PUSI packet of the video PID and
\* only if one was being collected, and it is what was collected; nothing is
\* collected after a PUSI packet of the video PID whose payload does not
\* begin 00 00 01, until the next PUSI packet of that PID.
C32_PesReassembly ==
    /\ \A k \in 1..Len(access_units) :
          LET packet == ts_packets[access_units[k].on].bytes
          IN /\ TsPusi(packet)
             /\ Some(TsPid(packet)) = pes_assembler.video_pid
             /\ access_units[k].bytes # <<>>
    /\ LastPesStartInvalid => pes_assembler.current_pes = <<>>

\* the moving average as a pair (numerator, denominator), and its update by
\* a frame of the given size: alpha = 1/20
EmaOf(f) == <<f.avg_p_frame_size.num, f.avg_p_frame_size.den>>
SameRatio(a, b) == a[1] * b[2] = b[1] * a[2]
EmaUpdated(old, size) ==
    IF old[1] = 0 THEN <<size, 1>>
    ELSE <<size * old[2] + 19 * old[1], 20 * old[2]>>

\* C33: each of the first 30 frames is reported active; an IDR frame is
\* reported active and leaves the EMA alone; after the warmup a P-frame is
\* reported active exactly when the EMA before it is positive and its size
\* exceeds spike_ratio times that EMA; every P-frame updates the EMA.
C33_FrameSizeFilter ==
    [][filter_call' # None /\ frame_size_filter' # frame_size_filter =>
        LET call == filter_call'[1]
            before == EmaOf(frame_size_filter)
            after == EmaOf(frame_size_filter')
            seen == frame_size_filter'.frames_seen
        IN /\ seen = frame_size_filter.frames_seen + 1
           /\ seen <= 30 => call.active
           /\ call.nal_type = 5 => call.active /\ after = before
           /\ (call.nal_type = 1 /\ seen > 30) =>
                 (call.active <=>
                    /\ before[1] > 0
                    /\ call.frame_size * before[2]
                          > rcfg.spike_ratio * before[1])
           /\ call.nal_type = 1 =>
                 SameRatio(after, EmaUpdated(before, call.frame_size))]_vars

\* a P-frame after the warmup, not the first one, was reported active
C33_Witness ==
    /\ frame_size_filter.frames_seen > WarmupFrames + 1
    /\ filter_call # None
    /\ filter_call[1].nal_type = PFrameNalType
    /\ filter_call[1].active

\* C34: in normal mode a failed batch that brings consecutive_failures to 3
\* or more is followed by the 5 minute sleep, whatever fallback_after_failures
\* is configured.
C34_BackoffAtThree ==
    [][(BatchFailedStep /\ ~fallback_mode /\ consecutive_failures' >= 3)
          => pc' = "backoff"]_vars

\* the target the running batch works towards
TargetInForce ==
    IF pc = "fb_delete" THEN FallbackTargetBytes ELSE cfg.target_bytes

\* a step that downloads, uploads or deletes an object of the batch
TouchesObject == pc \in {"upload", "delete", "fb_delete"}

\* C35: a batch takes its objects in listed order, one after the other;
\* it has at most batch_size of them; and no object is downloaded, uploaded or
\* deleted once the tracked total is below the target in force.
C35_BatchStopsAtTarget ==
    [][/\ TouchesObject =>
            /\ Len(entries) <= cfg.batch_size
            /\ pos \in 1..Len(entries)
            /\ \A i \in 1..(Len(entries) - 1) :
                   entries[i].key < entries[i + 1].key
            /\ evicted < pos
       /\ (TouchesObject /\ pc' \in {"upload", "delete", "fb_delete"}) =>
            /\ entries' = entries
            /\ pos' \in {pos, pos + 1}
            /\ pc' = "upload" => pos' = IF pc = "upload" THEN pos ELSE pos + 1
       /\ pc \in {"upload", "fb_delete"} => Total >= TargetInForce
       /\ (pc = "delete" /\ pc' = "upload") => Total' >= cfg.target_bytes
       /\ s3_upload_successes' - s3_upload_successes <= cfg.batch_size]_vars

\* a batch listed the objects with keys 1 and 2, moved the first to the
\* archive or deleted it in fallback, and stopped below the target with the
\* second still in the bucket
C35_Witness ==
    /\ pc = "sleep"
    /\ batch_result = "ok"
    /\ next_key = 3
    /\ DOMAIN bucket = {2}
    /\ Total < cfg.target_bytes

\* C36: the object eviction is working on is never the recording the frame
\* loop has open (which will be stored under next_key), and every entry of
\* the session index names an object that is in the bucket.
C36_EvictionAndIngestDisjoint ==
    /\ TouchesObject => entries[pos].key # next_key
    /\ \A t \in DOMAIN index : index[t].key \in DOMAIN bucket

\* C37: process_frame does not panic, whatever the frames: the machine is
\* Idle or Active as soon as a frame was taken in, also when JPEG frames
\* follow H.264 frames.
C37_ProcessFrameNeverPanics ==
    /\ state.kind \in {"None", "Idle", "Active"}
    /\ state.kind = "None" =>
          \A i \in 1..Len(topic) :
             topic[i].kind = "Jpeg" /\ compute_ahash(topic[i].data) = None

\* C38: usage accounting is exact: at the sleep point of the eviction loop,
\* with no PUT in flight, baseline_bytes plus the bytes of the session index
\* is the sum of the sizes of the objects in the local bucket.
C38_AccountingExact ==
    (pc = "sleep" /\ put_pending = None) =>
        baseline_bytes + StatsBytes(index) = BucketStatsBytes(bucket)

\* C39: an H.264 frame that is_active answered true for, fed to an Active
\* machine, is not quiet for the is_quiet test of the same call, and does not
\* raise consecutive_idle_count.
C39_ActiveFrameNotQuiet ==
    [][(/\ state.kind = "Active"
        /\ topic' # topic
        /\ Fed.kind = "H264"
        /\ filter_call' # None
        /\ filter_call'[1].active)
       => /\ ~is_quiet(frame_size_filter', Len(Fed.data))
          /\ state'.kind = "Active" =>
                state'.consecutive_idle_count
                  # state.consecutive_idle_count + 1]_vars

\* C40: the health counters count archive PUTs: a tick adds to
\* s3_upload_successes the number of archive PUTs of its batch that returned
\* success, also when the batch ends on a failure, and adds one to
\* s3_upload_failures exactly when an archive PUT failed.
BatchEnds == pc \in {"upload", "delete"} /\ pc' \in {"sleep", "backoff"}

PutsOfBatch == IF pc = "delete" THEN evicted + 1 ELSE evicted

PutFailed == pc = "upload" /\ batch_result' = "upload"

C40_UploadCounters ==
    [][/\ s3_upload_successes' =
            s3_upload_successes + (IF BatchEnds THEN PutsOfBatch ELSE 0)
       /\ s3_upload_failures' =
            s3_upload_failures + (IF PutFailed THEN 1 ELSE 0)]_vars

====
